---- MODULE Spec2Model ----
(***************************************************************************)
(* A model of pixie, a small source-to-source compiler: the lexer          *)
(* (src/lexer/lexer.go), the recursive-descent parser                      *)
(* (src/unnamed/part_000) and the compiler / type checker                  *)
(* (src/compiler/compiler.go).                                             *)
(*                                                                         *)
(* Runes are one-character strings, the input of a lexer is a sequence of  *)
(* runes, token values and emitted text are strings.  Go's 0-based cursor  *)
(* l.index is kept as is, so the rune under the cursor is input[index+1].  *)
(***************************************************************************)
EXTENDS Integers, Sequences, FiniteSets, TLC

VARIABLES
    lexer,      \* the Lexer: [input, index, buf]
    lres,       \* the last lexer call and what it returned
    nGot,       \* how many tokens GetToken has handed out so far
    comp,       \* the compiler struct of the running Compile call
    cpc,        \* where Compile is: "idle", "run", "done", "failed", "crashed"
    lua,        \* the string Compile returned
    cerr,       \* the error Compile returned
    nStmts,     \* how many statements compileStmt has been called on
    clast,      \* the last step of Compile and the compiler it started from
    declared,   \* per open block, the variables declared directly in it
    scn,        \* the family of programs the compiled program is drawn from
    stmts,      \* the statements parseBlock has collected
    ppc,        \* where Parse is: "idle", "run", "done", "failed"
    pnode,      \* the node Parse returned
    perr,       \* the error Parse returned
    piter       \* the parity of the number of iterations of parseBlock's loop

lexVars == <<lexer, lres, nGot>>

compVars == <<comp, cpc, lua, cerr, nStmts, clast, declared, scn>>

parVars == <<stmts, ppc, pnode, perr, piter>>

vars ==
    <<lexer, lres, nGot, comp, cpc, lua, cerr, nStmts, clast, declared, scn,
      stmts, ppc, pnode, perr, piter>>

----------------------------------------------------------------------------
(* Bounds of the model.                                                    *)

\* longest lexer input drawn from LexAlphabet
MaxLen == 3

\* most statements (nested blocks included) of a compiled program
MaxStmts == 4

\* deepest nesting of blocks in a compiled program, the root block being 1
MaxDepth == 3

\* most lexemes of a parser input drawn from ParseLexemes
MaxToks == 3

\* the elements of a list literal and the pairs of a table literal that
\* checkExpressionValidDataType is given
MaxElems == 2

\* the value v of a call under the name Body gives it: the local variable a Go
\* function keeps the results of a call in
With(v, Body(_)) == Body(v)

----------------------------------------------------------------------------
(* Errors.  An error value is the set of sentinel errors errors.Is finds   *)
(* in its chain, and its message, outermost context first.                 *)

NoErr == [is |-> {}, msg |-> <<>>]

Errorf(text) == [is |-> {}, msg |-> <<text>>]

\* fmt.Errorf("<ctx>: %w", err)
Wrap(ctx, err) == [is |-> err.is, msg |-> <<ctx>> \o err.msg]

ErrorsIs(err, sentinel) == sentinel \in err.is

io_EOF == [is |-> {"EOF"}, msg |-> <<"EOF">>]

errUnexpectedEOF == [is |-> {"unexpected EOF"}, msg |-> <<"unexpected EOF">>]

errInvalidRune == [is |-> {"invalid rune"}, msg |-> <<"invalid rune">>]

\* fmt.Errorf("%w: %s", errInvalidRune, string(r))
InvalidRuneError(r) == [is |-> errInvalidRune.is, msg |-> errInvalidRune.msg \o <<r>>]

----------------------------------------------------------------------------
(* Tokens.                                                                 *)

TokenType_Undefined == "Undefined"
TokenType_Label == "Label"
TokenType_NumberLiteral == "NumberLiteral"
TokenType_StringLiteral == "StringLiteral"
TokenType_BooleanLiteral == "BooleanLiteral"
TokenType_Plus == "Plus"
TokenType_Minus == "Minus"
TokenType_Asterisk == "Asterisk"
TokenType_ForwardSlash == "ForwardSlash"
TokenType_OpenParan == "OpenParan"
TokenType_CloseParan == "CloseParan"
TokenType_Comma == "Comma"
TokenType_Equal == "Equal"
TokenType_Colon == "Colon"
TokenType_OpenBracket == "OpenBracket"
TokenType_CloseBracket == "CloseBracket"
TokenType_Period == "Period"
TokenType_OpenBrace == "OpenBrace"
TokenType_CloseBrace == "CloseBrace"

\* the token types that getPrecedence names and lexer.go does not declare
TokenType_EqualEqual == "EqualEqual"
TokenType_BangEqual == "BangEqual"
TokenType_LessThan == "LessThan"
TokenType_LessThanEqual == "LessThanEqual"
TokenType_GreaterThan == "GreaterThan"
TokenType_GreaterThanEqual == "GreaterThanEqual"

Token(type, value) == [Type |-> type, Value |-> value]

\* the zero Token{} of a named result that was never assigned
ZeroToken == Token(TokenType_Undefined, "")

\* l.buf == nil
NilToken == Token("nil", "")

TokenTypeCharactersMap ==
    [r \in {"(", ")", ",", "+", "-", "*", "/", "=", ":", "[", "]", "{", "}"} |->
        CASE r = "(" -> Token(TokenType_OpenParan, "")
          [] r = ")" -> Token(TokenType_CloseParan, "")
          [] r = "," -> Token(TokenType_Comma, "")
          [] r = "+" -> Token(TokenType_Plus, "")
          [] r = "-" -> Token(TokenType_Minus, "")
          [] r = "*" -> Token(TokenType_Asterisk, "")
          [] r = "/" -> Token(TokenType_ForwardSlash, "")
          [] r = "=" -> Token(TokenType_Equal, "")
          [] r = ":" -> Token(TokenType_Colon, "")
          [] r = "[" -> Token(TokenType_OpenBracket, "")
          [] r = "]" -> Token(TokenType_CloseBracket, "")
          [] r = "{" -> Token(TokenType_OpenBrace, "")
          [] r = "}" -> Token(TokenType_CloseBrace, "")]

Keyword_Function == "fn"
Keyword_Number == "num"
Keyword_String == "str"
Keyword_Boolean == "bool"
Keyword_List == "list"
Keyword_Map == "map"
Keyword_Object == "obj"
Keyword_True == "true"
Keyword_False == "false"
Keyword_Local == "local"

IllegalKeywords ==
    {Keyword_Function, Keyword_Number, Keyword_String, Keyword_Boolean,
     Keyword_List, Keyword_Map, Keyword_True, Keyword_False}

----------------------------------------------------------------------------
(* Rune classes of package unicode.  A printable ASCII rune, and each of    *)
(* \t, \n, \f and \r, is the string of that rune; every other rune is      *)
(* written by its code point in hexadecimal, with four digits or more:     *)
(* "U+000B" for \v, "U+00E9", "U+0660", "U+1F30D".  The ranges are those   *)
(* of the tables of package unicode of Go 1.23 (Unicode 15.0.0).           *)

\* the four hexadecimal digits of n, for n in 0..65535
Hex4(n) ==
    LET hex == <<"0", "1", "2", "3", "4", "5", "6", "7",
                 "8", "9", "A", "B", "C", "D", "E", "F">>
    IN hex[((n \div 4096) % 16) + 1] \o hex[((n \div 256) % 16) + 1]
       \o hex[((n \div 16) % 16) + 1] \o hex[(n % 16) + 1]

\* the name of the rune with code point n, for n up to U+10FFFF: "U+" and
\* fmt's %04X
CodePointName(n) ==
    "U+" \o (IF n < 65536 THEN ""
             ELSE IF n < 1048576 THEN SubSeq(Hex4(n \div 65536), 4, 4) ELSE "10")
         \o Hex4(n % 65536)

\* the runes of the code point ranges, each <<first, last>>
RunesOf(ranges) ==
    {CodePointName(n) : n \in UNION {ranges[i][1]..ranges[i][2] : i \in DOMAIN ranges}}

\* unicode.Letter beyond ASCII: categories Lu, Ll, Lt, Lm and Lo
LetterRanges ==
    << <<170, 170>>, <<181, 181>>, <<186, 186>>, <<192, 214>>, <<216, 246>>,
       <<248, 705>>, <<710, 721>>, <<736, 740>>, <<748, 748>>, <<750, 750>>,
       <<880, 884>>, <<886, 887>>, <<890, 893>>, <<895, 895>>, <<902, 902>>,
       <<904, 906>>, <<908, 908>>, <<910, 929>>, <<931, 1013>>,
       <<1015, 1153>>, <<1162, 1327>>, <<1329, 1366>>, <<1369, 1369>>,
       <<1376, 1416>>, <<1488, 1514>>, <<1519, 1522>>, <<1568, 1610>>,
       <<1646, 1647>>, <<1649, 1747>>, <<1749, 1749>>, <<1765, 1766>>,
       <<1774, 1775>>, <<1786, 1788>>, <<1791, 1791>>, <<1808, 1808>>,
       <<1810, 1839>>, <<1869, 1957>>, <<1969, 1969>>, <<1994, 2026>>,
       <<2036, 2037>>, <<2042, 2042>>, <<2048, 2069>>, <<2074, 2074>>,
       <<2084, 2084>>, <<2088, 2088>>, <<2112, 2136>>, <<2144, 2154>>,
       <<2160, 2183>>, <<2185, 2190>>, <<2208, 2249>>, <<2308, 2361>>,
       <<2365, 2365>>, <<2384, 2384>>, <<2392, 2401>>, <<2417, 2432>>,
       <<2437, 2444>>, <<2447, 2448>>, <<2451, 2472>>, <<2474, 2480>>,
       <<2482, 2482>>, <<2486, 2489>>, <<2493, 2493>>, <<2510, 2510>>,
       <<2524, 2525>>, <<2527, 2529>>, <<2544, 2545>>, <<2556, 2556>>,
       <<2565, 2570>>, <<2575, 2576>>, <<2579, 2600>>, <<2602, 2608>>,
       <<2610, 2611>>, <<2613, 2614>>, <<2616, 2617>>, <<2649, 2652>>,
       <<2654, 2654>>, <<2674, 2676>>, <<2693, 2701>>, <<2703, 2705>>,
       <<2707, 2728>>, <<2730, 2736>>, <<2738, 2739>>, <<2741, 2745>>,
       <<2749, 2749>>, <<2768, 2768>>, <<2784, 2785>>, <<2809, 2809>>,
       <<2821, 2828>>, <<2831, 2832>>, <<2835, 2856>>, <<2858, 2864>>,
       <<2866, 2867>>, <<2869, 2873>>, <<2877, 2877>>, <<2908, 2909>>,
       <<2911, 2913>>, <<2929, 2929>>, <<2947, 2947>>, <<2949, 2954>>,
       <<2958, 2960>>, <<2962, 2965>>, <<2969, 2970>>, <<2972, 2972>>,
       <<2974, 2975>>, <<2979, 2980>>, <<2984, 2986>>, <<2990, 3001>>,
       <<3024, 3024>>, <<3077, 3084>>, <<3086, 3088>>, <<3090, 3112>>,
       <<3114, 3129>>, <<3133, 3133>>, <<3160, 3162>>, <<3165, 3165>>,
       <<3168, 3169>>, <<3200, 3200>>, <<3205, 3212>>, <<3214, 3216>>,
       <<3218, 3240>>, <<3242, 3251>>, <<3253, 3257>>, <<3261, 3261>>,
       <<3293, 3294>>, <<3296, 3297>>, <<3313, 3314>>, <<3332, 3340>>,
       <<3342, 3344>>, <<3346, 3386>>, <<3389, 3389>>, <<3406, 3406>>,
       <<3412, 3414>>, <<3423, 3425>>, <<3450, 3455>>, <<3461, 3478>>,
       <<3482, 3505>>, <<3507, 3515>>, <<3517, 3517>>, <<3520, 3526>>,
       <<3585, 3632>>, <<3634, 3635>>, <<3648, 3654>>, <<3713, 3714>>,
       <<3716, 3716>>, <<3718, 3722>>, <<3724, 3747>>, <<3749, 3749>>,
       <<3751, 3760>>, <<3762, 3763>>, <<3773, 3773>>, <<3776, 3780>>,
       <<3782, 3782>>, <<3804, 3807>>, <<3840, 3840>>, <<3904, 3911>>,
       <<3913, 3948>>, <<3976, 3980>>, <<4096, 4138>>, <<4159, 4159>>,
       <<4176, 4181>>, <<4186, 4189>>, <<4193, 4193>>, <<4197, 4198>>,
       <<4206, 4208>>, <<4213, 4225>>, <<4238, 4238>>, <<4256, 4293>>,
       <<4295, 4295>>, <<4301, 4301>>, <<4304, 4346>>, <<4348, 4680>>,
       <<4682, 4685>>, <<4688, 4694>>, <<4696, 4696>>, <<4698, 4701>>,
       <<4704, 4744>>, <<4746, 4749>>, <<4752, 4784>>, <<4786, 4789>>,
       <<4792, 4798>>, <<4800, 4800>>, <<4802, 4805>>, <<4808, 4822>>,
       <<4824, 4880>>, <<4882, 4885>>, <<4888, 4954>>, <<4992, 5007>>,
       <<5024, 5109>>, <<5112, 5117>>, <<5121, 5740>>, <<5743, 5759>>,
       <<5761, 5786>>, <<5792, 5866>>, <<5873, 5880>>, <<5888, 5905>>,
       <<5919, 5937>>, <<5952, 5969>>, <<5984, 5996>>, <<5998, 6000>>,
       <<6016, 6067>>, <<6103, 6103>>, <<6108, 6108>>, <<6176, 6264>>,
       <<6272, 6276>>, <<6279, 6312>>, <<6314, 6314>>, <<6320, 6389>>,
       <<6400, 6430>>, <<6480, 6509>>, <<6512, 6516>>, <<6528, 6571>>,
       <<6576, 6601>>, <<6656, 6678>>, <<6688, 6740>>, <<6823, 6823>>,
       <<6917, 6963>>, <<6981, 6988>>, <<7043, 7072>>, <<7086, 7087>>,
       <<7098, 7141>>, <<7168, 7203>>, <<7245, 7247>>, <<7258, 7293>>,
       <<7296, 7304>>, <<7312, 7354>>, <<7357, 7359>>, <<7401, 7404>>,
       <<7406, 7411>>, <<7413, 7414>>, <<7418, 7418>>, <<7424, 7615>>,
       <<7680, 7957>>, <<7960, 7965>>, <<7968, 8005>>, <<8008, 8013>>,
       <<8016, 8023>>, <<8025, 8025>>, <<8027, 8027>>, <<8029, 8029>>,
       <<8031, 8061>>, <<8064, 8116>>, <<8118, 8124>>, <<8126, 8126>>,
       <<8130, 8132>>, <<8134, 8140>>, <<8144, 8147>>, <<8150, 8155>>,
       <<8160, 8172>>, <<8178, 8180>>, <<8182, 8188>>, <<8305, 8305>>,
       <<8319, 8319>>, <<8336, 8348>>, <<8450, 8450>>, <<8455, 8455>>,
       <<8458, 8467>>, <<8469, 8469>>, <<8473, 8477>>, <<8484, 8484>>,
       <<8486, 8486>>, <<8488, 8488>>, <<8490, 8493>>, <<8495, 8505>>,
       <<8508, 8511>>, <<8517, 8521>>, <<8526, 8526>>, <<8579, 8580>>,
       <<11264, 11492>>, <<11499, 11502>>, <<11506, 11507>>,
       <<11520, 11557>>, <<11559, 11559>>, <<11565, 11565>>,
       <<11568, 11623>>, <<11631, 11631>>, <<11648, 11670>>,
       <<11680, 11686>>, <<11688, 11694>>, <<11696, 11702>>,
       <<11704, 11710>>, <<11712, 11718>>, <<11720, 11726>>,
       <<11728, 11734>>, <<11736, 11742>>, <<11823, 11823>>,
       <<12293, 12294>>, <<12337, 12341>>, <<12347, 12348>>,
       <<12353, 12438>>, <<12445, 12447>>, <<12449, 12538>>,
       <<12540, 12543>>, <<12549, 12591>>, <<12593, 12686>>,
       <<12704, 12735>>, <<12784, 12799>>, <<13312, 19903>>,
       <<19968, 42124>>, <<42192, 42237>>, <<42240, 42508>>,
       <<42512, 42527>>, <<42538, 42539>>, <<42560, 42606>>,
       <<42623, 42653>>, <<42656, 42725>>, <<42775, 42783>>,
       <<42786, 42888>>, <<42891, 42954>>, <<42960, 42961>>,
       <<42963, 42963>>, <<42965, 42969>>, <<42994, 43009>>,
       <<43011, 43013>>, <<43015, 43018>>, <<43020, 43042>>,
       <<43072, 43123>>, <<43138, 43187>>, <<43250, 43255>>,
       <<43259, 43259>>, <<43261, 43262>>, <<43274, 43301>>,
       <<43312, 43334>>, <<43360, 43388>>, <<43396, 43442>>,
       <<43471, 43471>>, <<43488, 43492>>, <<43494, 43503>>,
       <<43514, 43518>>, <<43520, 43560>>, <<43584, 43586>>,
       <<43588, 43595>>, <<43616, 43638>>, <<43642, 43642>>,
       <<43646, 43695>>, <<43697, 43697>>, <<43701, 43702>>,
       <<43705, 43709>>, <<43712, 43712>>, <<43714, 43714>>,
       <<43739, 43741>>, <<43744, 43754>>, <<43762, 43764>>,
       <<43777, 43782>>, <<43785, 43790>>, <<43793, 43798>>,
       <<43808, 43814>>, <<43816, 43822>>, <<43824, 43866>>,
       <<43868, 43881>>, <<43888, 44002>>, <<44032, 55203>>,
       <<55216, 55238>>, <<55243, 55291>>, <<63744, 64109>>,
       <<64112, 64217>>, <<64256, 64262>>, <<64275, 64279>>,
       <<64285, 64285>>, <<64287, 64296>>, <<64298, 64310>>,
       <<64312, 64316>>, <<64318, 64318>>, <<64320, 64321>>,
       <<64323, 64324>>, <<64326, 64433>>, <<64467, 64829>>,
       <<64848, 64911>>, <<64914, 64967>>, <<65008, 65019>>,
       <<65136, 65140>>, <<65142, 65276>>, <<65313, 65338>>,
       <<65345, 65370>>, <<65382, 65470>>, <<65474, 65479>>,
       <<65482, 65487>>, <<65490, 65495>>, <<65498, 65500>>,
       <<65536, 65547>>, <<65549, 65574>>, <<65576, 65594>>,
       <<65596, 65597>>, <<65599, 65613>>, <<65616, 65629>>,
       <<65664, 65786>>, <<66176, 66204>>, <<66208, 66256>>,
       <<66304, 66335>>, <<66349, 66368>>, <<66370, 66377>>,
       <<66384, 66421>>, <<66432, 66461>>, <<66464, 66499>>,
       <<66504, 66511>>, <<66560, 66717>>, <<66736, 66771>>,
       <<66776, 66811>>, <<66816, 66855>>, <<66864, 66915>>,
       <<66928, 66938>>, <<66940, 66954>>, <<66956, 66962>>,
       <<66964, 66965>>, <<66967, 66977>>, <<66979, 66993>>,
       <<66995, 67001>>, <<67003, 67004>>, <<67072, 67382>>,
       <<67392, 67413>>, <<67424, 67431>>, <<67456, 67461>>,
       <<67463, 67504>>, <<67506, 67514>>, <<67584, 67589>>,
       <<67592, 67592>>, <<67594, 67637>>, <<67639, 67640>>,
       <<67644, 67644>>, <<67647, 67669>>, <<67680, 67702>>,
       <<67712, 67742>>, <<67808, 67826>>, <<67828, 67829>>,
       <<67840, 67861>>, <<67872, 67897>>, <<67968, 68023>>,
       <<68030, 68031>>, <<68096, 68096>>, <<68112, 68115>>,
       <<68117, 68119>>, <<68121, 68149>>, <<68192, 68220>>,
       <<68224, 68252>>, <<68288, 68295>>, <<68297, 68324>>,
       <<68352, 68405>>, <<68416, 68437>>, <<68448, 68466>>,
       <<68480, 68497>>, <<68608, 68680>>, <<68736, 68786>>,
       <<68800, 68850>>, <<68864, 68899>>, <<69248, 69289>>,
       <<69296, 69297>>, <<69376, 69404>>, <<69415, 69415>>,
       <<69424, 69445>>, <<69488, 69505>>, <<69552, 69572>>,
       <<69600, 69622>>, <<69635, 69687>>, <<69745, 69746>>,
       <<69749, 69749>>, <<69763, 69807>>, <<69840, 69864>>,
       <<69891, 69926>>, <<69956, 69956>>, <<69959, 69959>>,
       <<69968, 70002>>, <<70006, 70006>>, <<70019, 70066>>,
       <<70081, 70084>>, <<70106, 70106>>, <<70108, 70108>>,
       <<70144, 70161>>, <<70163, 70187>>, <<70207, 70208>>,
       <<70272, 70278>>, <<70280, 70280>>, <<70282, 70285>>,
       <<70287, 70301>>, <<70303, 70312>>, <<70320, 70366>>,
       <<70405, 70412>>, <<70415, 70416>>, <<70419, 70440>>,
       <<70442, 70448>>, <<70450, 70451>>, <<70453, 70457>>,
       <<70461, 70461>>, <<70480, 70480>>, <<70493, 70497>>,
       <<70656, 70708>>, <<70727, 70730>>, <<70751, 70753>>,
       <<70784, 70831>>, <<70852, 70853>>, <<70855, 70855>>,
       <<71040, 71086>>, <<71128, 71131>>, <<71168, 71215>>,
       <<71236, 71236>>, <<71296, 71338>>, <<71352, 71352>>,
       <<71424, 71450>>, <<71488, 71494>>, <<71680, 71723>>,
       <<71840, 71903>>, <<71935, 71942>>, <<71945, 71945>>,
       <<71948, 71955>>, <<71957, 71958>>, <<71960, 71983>>,
       <<71999, 71999>>, <<72001, 72001>>, <<72096, 72103>>,
       <<72106, 72144>>, <<72161, 72161>>, <<72163, 72163>>,
       <<72192, 72192>>, <<72203, 72242>>, <<72250, 72250>>,
       <<72272, 72272>>, <<72284, 72329>>, <<72349, 72349>>,
       <<72368, 72440>>, <<72704, 72712>>, <<72714, 72750>>,
       <<72768, 72768>>, <<72818, 72847>>, <<72960, 72966>>,
       <<72968, 72969>>, <<72971, 73008>>, <<73030, 73030>>,
       <<73056, 73061>>, <<73063, 73064>>, <<73066, 73097>>,
       <<73112, 73112>>, <<73440, 73458>>, <<73474, 73474>>,
       <<73476, 73488>>, <<73490, 73523>>, <<73648, 73648>>,
       <<73728, 74649>>, <<74880, 75075>>, <<77712, 77808>>,
       <<77824, 78895>>, <<78913, 78918>>, <<82944, 83526>>,
       <<92160, 92728>>, <<92736, 92766>>, <<92784, 92862>>,
       <<92880, 92909>>, <<92928, 92975>>, <<92992, 92995>>,
       <<93027, 93047>>, <<93053, 93071>>, <<93760, 93823>>,
       <<93952, 94026>>, <<94032, 94032>>, <<94099, 94111>>,
       <<94176, 94177>>, <<94179, 94179>>, <<94208, 100343>>,
       <<100352, 101589>>, <<101632, 101640>>, <<110576, 110579>>,
       <<110581, 110587>>, <<110589, 110590>>, <<110592, 110882>>,
       <<110898, 110898>>, <<110928, 110930>>, <<110933, 110933>>,
       <<110948, 110951>>, <<110960, 111355>>, <<113664, 113770>>,
       <<113776, 113788>>, <<113792, 113800>>, <<113808, 113817>>,
       <<119808, 119892>>, <<119894, 119964>>, <<119966, 119967>>,
       <<119970, 119970>>, <<119973, 119974>>, <<119977, 119980>>,
       <<119982, 119993>>, <<119995, 119995>>, <<119997, 120003>>,
       <<120005, 120069>>, <<120071, 120074>>, <<120077, 120084>>,
       <<120086, 120092>>, <<120094, 120121>>, <<120123, 120126>>,
       <<120128, 120132>>, <<120134, 120134>>, <<120138, 120144>>,
       <<120146, 120485>>, <<120488, 120512>>, <<120514, 120538>>,
       <<120540, 120570>>, <<120572, 120596>>, <<120598, 120628>>,
       <<120630, 120654>>, <<120656, 120686>>, <<120688, 120712>>,
       <<120714, 120744>>, <<120746, 120770>>, <<120772, 120779>>,
       <<122624, 122654>>, <<122661, 122666>>, <<122928, 122989>>,
       <<123136, 123180>>, <<123191, 123197>>, <<123214, 123214>>,
       <<123536, 123565>>, <<123584, 123627>>, <<124112, 124139>>,
       <<124896, 124902>>, <<124904, 124907>>, <<124909, 124910>>,
       <<124912, 124926>>, <<124928, 125124>>, <<125184, 125251>>,
       <<125259, 125259>>, <<126464, 126467>>, <<126469, 126495>>,
       <<126497, 126498>>, <<126500, 126500>>, <<126503, 126503>>,
       <<126505, 126514>>, <<126516, 126519>>, <<126521, 126521>>,
       <<126523, 126523>>, <<126530, 126530>>, <<126535, 126535>>,
       <<126537, 126537>>, <<126539, 126539>>, <<126541, 126543>>,
       <<126545, 126546>>, <<126548, 126548>>, <<126551, 126551>>,
       <<126553, 126553>>, <<126555, 126555>>, <<126557, 126557>>,
       <<126559, 126559>>, <<126561, 126562>>, <<126564, 126564>>,
       <<126567, 126570>>, <<126572, 126578>>, <<126580, 126583>>,
       <<126585, 126588>>, <<126590, 126590>>, <<126592, 126601>>,
       <<126603, 126619>>, <<126625, 126627>>, <<126629, 126633>>,
       <<126635, 126651>>, <<131072, 173791>>, <<173824, 177977>>,
       <<177984, 178205>>, <<178208, 183969>>, <<183984, 191456>>,
       <<194560, 195101>>, <<196608, 201546>>, <<201552, 205743>> >>

\* unicode.Number beyond ASCII: categories Nd, Nl and No
NumberRanges ==
    << <<178, 179>>, <<185, 185>>, <<188, 190>>, <<1632, 1641>>,
       <<1776, 1785>>, <<1984, 1993>>, <<2406, 2415>>, <<2534, 2543>>,
       <<2548, 2553>>, <<2662, 2671>>, <<2790, 2799>>, <<2918, 2927>>,
       <<2930, 2935>>, <<3046, 3058>>, <<3174, 3183>>, <<3192, 3198>>,
       <<3302, 3311>>, <<3416, 3422>>, <<3430, 3448>>, <<3558, 3567>>,
       <<3664, 3673>>, <<3792, 3801>>, <<3872, 3891>>, <<4160, 4169>>,
       <<4240, 4249>>, <<4969, 4988>>, <<5870, 5872>>, <<6112, 6121>>,
       <<6128, 6137>>, <<6160, 6169>>, <<6470, 6479>>, <<6608, 6618>>,
       <<6784, 6793>>, <<6800, 6809>>, <<6992, 7001>>, <<7088, 7097>>,
       <<7232, 7241>>, <<7248, 7257>>, <<8304, 8304>>, <<8308, 8313>>,
       <<8320, 8329>>, <<8528, 8578>>, <<8581, 8585>>, <<9312, 9371>>,
       <<9450, 9471>>, <<10102, 10131>>, <<11517, 11517>>, <<12295, 12295>>,
       <<12321, 12329>>, <<12344, 12346>>, <<12690, 12693>>,
       <<12832, 12841>>, <<12872, 12879>>, <<12881, 12895>>,
       <<12928, 12937>>, <<12977, 12991>>, <<42528, 42537>>,
       <<42726, 42735>>, <<43056, 43061>>, <<43216, 43225>>,
       <<43264, 43273>>, <<43472, 43481>>, <<43504, 43513>>,
       <<43600, 43609>>, <<44016, 44025>>, <<65296, 65305>>,
       <<65799, 65843>>, <<65856, 65912>>, <<65930, 65931>>,
       <<66273, 66299>>, <<66336, 66339>>, <<66369, 66369>>,
       <<66378, 66378>>, <<66513, 66517>>, <<66720, 66729>>,
       <<67672, 67679>>, <<67705, 67711>>, <<67751, 67759>>,
       <<67835, 67839>>, <<67862, 67867>>, <<68028, 68029>>,
       <<68032, 68047>>, <<68050, 68095>>, <<68160, 68168>>,
       <<68221, 68222>>, <<68253, 68255>>, <<68331, 68335>>,
       <<68440, 68447>>, <<68472, 68479>>, <<68521, 68527>>,
       <<68858, 68863>>, <<68912, 68921>>, <<69216, 69246>>,
       <<69405, 69414>>, <<69457, 69460>>, <<69573, 69579>>,
       <<69714, 69743>>, <<69872, 69881>>, <<69942, 69951>>,
       <<70096, 70105>>, <<70113, 70132>>, <<70384, 70393>>,
       <<70736, 70745>>, <<70864, 70873>>, <<71248, 71257>>,
       <<71360, 71369>>, <<71472, 71483>>, <<71904, 71922>>,
       <<72016, 72025>>, <<72784, 72812>>, <<73040, 73049>>,
       <<73120, 73129>>, <<73552, 73561>>, <<73664, 73684>>,
       <<74752, 74862>>, <<92768, 92777>>, <<92864, 92873>>,
       <<93008, 93017>>, <<93019, 93025>>, <<93824, 93846>>,
       <<119488, 119507>>, <<119520, 119539>>, <<119648, 119672>>,
       <<120782, 120831>>, <<123200, 123209>>, <<123632, 123641>>,
       <<124144, 124153>>, <<125127, 125135>>, <<125264, 125273>>,
       <<126065, 126123>>, <<126125, 126127>>, <<126129, 126132>>,
       <<126209, 126253>>, <<126255, 126269>>, <<127232, 127244>>,
       <<130032, 130041>> >>

LetterRunes ==
    {"a", "b", "c", "d", "e", "f", "g", "h", "i", "j", "k", "l", "m",
     "n", "o", "p", "q", "r", "s", "t", "u", "v", "w", "x", "y", "z"}
    \cup
    {"A", "B", "C", "D", "E", "F", "G", "H", "I", "J", "K", "L", "M",
     "N", "O", "P", "Q", "R", "S", "T", "U", "V", "W", "X", "Y", "Z"}
    \cup RunesOf(LetterRanges)

NumberRunes ==
    {"0", "1", "2", "3", "4", "5", "6", "7", "8", "9"} \cup RunesOf(NumberRanges)

\* unicode.IsSpace: \t \n \v \f \r, space, U+0085, U+00A0, and the runes of
\* property White_Space beyond U+00FF
unicodeIsSpace(r) ==
    r \in {"\t", "\n", "U+000B", "\f", "\r", " ", "U+0085", "U+00A0",
           "U+1680", "U+2000", "U+2001", "U+2002", "U+2003", "U+2004", "U+2005",
           "U+2006", "U+2007", "U+2008", "U+2009", "U+200A", "U+2028", "U+2029",
           "U+202F", "U+205F", "U+3000"}

\* unicode.IsNumber
unicodeIsNumber(r) == r \in NumberRunes

\* unicode.IsLetter
unicodeIsLetter(r) == r \in LetterRunes

isLabelRune(r) == unicodeIsLetter(r) \/ unicodeIsNumber(r) \/ r = "_"

----------------------------------------------------------------------------
(* The lexer.  Every operation returns the lexer it leaves behind.         *)

\* lexer.New
NewLexer(input) == [input |-> input, index |-> 0, buf |-> NilToken]

AtIndex(l, n) == [l EXCEPT !.index = n]

peekRune(l) ==
    IF l.index >= Len(l.input)
    THEN [r |-> "", err |-> io_EOF]
    ELSE [r |-> l.input[l.index + 1], err |-> NoErr]

getRune(l) ==
    IF l.index >= Len(l.input)
    THEN [l |-> l, r |-> "", err |-> io_EOF]
    ELSE [l |-> AtIndex(l, l.index + 1), r |-> l.input[l.index + 1], err |-> NoErr]

\* a getTokenNumberLiteral that takes every decimal point
takesDecimalPoint_Always(r, hasDecimalPoint) == r = "."

\* whether getTokenNumberLiteral adds the rune to the literal as its decimal point
takesDecimalPoint(r, hasDecimalPoint) == r = "." /\ ~hasDecimalPoint

\* the for loop of getTokenNumberLiteral
RECURSIVE NumberLiteralLoop(_, _, _)
NumberLiteralLoop(l, value, hasDecimalPoint) ==
    With(peekRune(l), LAMBDA p :
    IF p.err = io_EOF
    THEN [l |-> l, tok |-> Token(TokenType_NumberLiteral, value), err |-> NoErr]
    ELSE IF unicodeIsNumber(p.r)
    THEN NumberLiteralLoop(AtIndex(l, l.index + 1), value \o p.r, hasDecimalPoint)
    ELSE IF takesDecimalPoint(p.r, hasDecimalPoint)
    THEN NumberLiteralLoop(AtIndex(l, l.index + 1), value \o p.r, TRUE)
    ELSE [l |-> l, tok |-> Token(TokenType_NumberLiteral, value), err |-> NoErr])

getTokenNumberLiteral(l) == NumberLiteralLoop(l, "", FALSE)

\* the for loop of getTokenLabel: the lexer and the text it stopped with
RECURSIVE LabelLoop(_, _)
LabelLoop(l, value) ==
    With(peekRune(l), LAMBDA p :
    IF p.err # NoErr
    THEN [l |-> l, value |-> value, err |-> p.err]
    ELSE IF isLabelRune(p.r)
    THEN LabelLoop(AtIndex(l, l.index + 1), value \o p.r)
    ELSE [l |-> l, value |-> value, err |-> NoErr])

getTokenLabel(l) ==
    With(LabelLoop(l, ""), LAMBDA s :
        LET type == IF s.value = Keyword_True \/ s.value = Keyword_False
                THEN TokenType_BooleanLiteral
                ELSE TokenType_Label
    IN [l |-> s.l, tok |-> Token(type, s.value),
        err |-> IF s.err = io_EOF THEN NoErr ELSE s.err])

\* a getTokenStringLiteral that hands getRune's io.EOF on unchanged
StringLiteralEOF_Raw(err) == err

\* the unterminated-string error of getTokenStringLiteral
StringLiteralEOF(err) == errUnexpectedEOF

\* the for loop of getTokenStringLiteral; the opening quote is consumed
RECURSIVE StringLiteralLoop(_, _)
StringLiteralLoop(l, value) ==
    With(getRune(l), LAMBDA g :
    IF g.err = io_EOF
    THEN [l |-> g.l, tok |-> Token(TokenType_StringLiteral, value),
          err |-> StringLiteralEOF(g.err)]
    ELSE IF g.r = "\""
    THEN [l |-> g.l, tok |-> Token(TokenType_StringLiteral, value), err |-> NoErr]
    ELSE StringLiteralLoop(g.l, value \o g.r))

getTokenStringLiteral(l) == StringLiteralLoop(l, "")

\* a skipComments that skips nothing
skipComments_Nothing(l) == l

\* skipComments leaves the cursor on the line end, or at the end of input
RECURSIVE skipComments(_)
skipComments(l) ==
    With(peekRune(l), LAMBDA p :
    IF p.err # NoErr THEN l
    ELSE IF p.r = "\n" \/ p.r = "\r" THEN l
    ELSE skipComments(AtIndex(l, l.index + 1)))

\* a lexer that steps over the rune it reports as invalid
InvalidRuneCursor_Skips(l) == AtIndex(l, l.index + 1)

\* the lexer GetToken leaves behind when the rune is unknown: the rune was
\* read with peekRune and l.index is not incremented
InvalidRuneCursor(l) == l

\* the for loop of GetToken, entered with an empty buffer
RECURSIVE GetTokenLoop(_)
GetTokenLoop(l) ==
    With(peekRune(l), LAMBDA p :
    IF p.err # NoErr
    THEN [l |-> l, tok |-> ZeroToken, err |-> p.err]
    ELSE IF unicodeIsSpace(p.r)
    THEN GetTokenLoop(AtIndex(l, l.index + 1))
    ELSE IF unicodeIsNumber(p.r)
    THEN getTokenNumberLiteral(l)
    ELSE IF isLabelRune(p.r)
    THEN getTokenLabel(l)
    ELSE IF p.r = "\""
    THEN getTokenStringLiteral(AtIndex(l, l.index + 1))
    ELSE IF p.r = "."
    THEN [l |-> AtIndex(l, l.index + 1), tok |-> Token(TokenType_Period, ""),
          err |-> NoErr]
    ELSE IF p.r = "/" /\ l.index + 1 >= Len(l.input)
    THEN [l |-> AtIndex(l, l.index + 1), tok |-> Token(TokenType_ForwardSlash, ""),
          err |-> NoErr]
    ELSE IF p.r = "/" /\ l.input[l.index + 2] = "/"
    THEN GetTokenLoop(skipComments(AtIndex(l, l.index + 2)))
    ELSE IF p.r = "/"
    THEN [l |-> AtIndex(l, l.index + 1), tok |-> Token(TokenType_ForwardSlash, ""),
          err |-> NoErr]
    ELSE IF p.r \in DOMAIN TokenTypeCharactersMap
    THEN [l |-> AtIndex(l, l.index + 1), tok |-> TokenTypeCharactersMap[p.r],
          err |-> NoErr]
    ELSE [l |-> InvalidRuneCursor(l), tok |-> ZeroToken, err |-> InvalidRuneError(p.r)])

GetToken(l) ==
    IF l.buf # NilToken
    THEN [l |-> [l EXCEPT !.buf = NilToken], tok |-> l.buf, err |-> NoErr]
    ELSE GetTokenLoop(l)

\* a PeekToken that forgets to fill the buffer
PeekBuffer_Never(g) == g.l.buf

\* a PeekToken that buffers what GetToken returned, also with an error
PeekBuffer_Always(g) == g.tok

\* what PeekToken keeps in l.buf after its GetToken returned g
PeekBuffer(g) == IF g.err # NoErr THEN g.l.buf ELSE g.tok

PeekToken(l) ==
    IF l.buf # NilToken
    THEN [l |-> l, tok |-> l.buf, err |-> NoErr]
    ELSE With(GetToken(l), LAMBDA g :
         [l |-> [g.l EXCEPT !.buf = PeekBuffer(g)], tok |-> g.tok, err |-> g.err])

ConsumeToken(l, expected) ==
    With(GetToken(l), LAMBDA g :
    IF g.err # NoErr THEN [l |-> g.l, err |-> g.err]
    ELSE [l |-> g.l, err |-> NoErr])

----------------------------------------------------------------------------
(* Data types (package shared), expressions and statements (package        *)
(* parser).  A node is a record whose field k names its Go type.           *)

Number == [k |-> "Number"]
String == [k |-> "String"]
Boolean == [k |-> "Boolean"]
List(t) == [k |-> "List", ListType |-> t]
Map(kt, vt) == [k |-> "Map", KeyType |-> kt, ValueType |-> vt]
\* the parser leaves Custom.DataType nil
Custom(name) == [k |-> "Custom", Name |-> name]

\* calling RootType() dereferences the nil DataType of a Custom
RECURSIVE RootTypePanics(_)
RootTypePanics(t) ==
    CASE t.k = "Custom" -> TRUE
      [] t.k = "List" -> RootTypePanics(t.ListType)
      [] t.k = "Map" -> RootTypePanics(t.KeyType) \/ RootTypePanics(t.ValueType)
      [] OTHER -> FALSE

RECURSIVE RootType(_)
RootType(t) ==
    CASE t.k = "Number" -> Keyword_Number
      [] t.k = "String" -> Keyword_String
      [] t.k = "Boolean" -> Keyword_Boolean
      [] t.k = "List" -> "list[" \o RootType(t.ListType) \o "]"
      [] t.k = "Map" -> "map[" \o RootType(t.KeyType) \o "][" \o RootType(t.ValueType) \o "]"

\* calling String() panics when it reaches RootType() of a Custom
RECURSIVE TypeStringPanics(_)
TypeStringPanics(t) ==
    CASE t.k = "List" -> TypeStringPanics(t.ListType)
      [] t.k = "Map" -> RootTypePanics(t.KeyType) \/ TypeStringPanics(t.ValueType)
      [] OTHER -> FALSE

\* DataType.String()
RECURSIVE TypeString(_)
TypeString(t) ==
    CASE t.k = "Number" -> Keyword_Number
      [] t.k = "String" -> Keyword_String
      [] t.k = "Boolean" -> Keyword_Boolean
      [] t.k = "List" -> "list[" \o TypeString(t.ListType) \o "]"
      [] t.k = "Map" -> "map[" \o RootType(t.KeyType) \o "][" \o TypeString(t.ValueType) \o "]"
      [] t.k = "Custom" -> t.Name

\* DataType.ZeroValue() of the types that are not Custom
ZeroValue(t) ==
    CASE t.k = "Number" -> "0"
      [] t.k = "String" -> "\"\""
      [] t.k = "Boolean" -> "false"
      [] t.k = "List" -> "[]"
      [] t.k = "Map" -> "{}"

NilExpr == [k |-> "nil"]
ExprBlock(e) == [k |-> "ExprBlock", Value |-> e]
ExprNumber(v) == [k |-> "ExprNumber", Value |-> v]
ExprString(v) == [k |-> "ExprString", Value |-> v]
ExprBoolean(v) == [k |-> "ExprBoolean", Value |-> v]
ExprList(vs) == [k |-> "ExprList", Values |-> vs]
TablePair(key, value) == [Key |-> key, Value |-> value]
ExprTable(ps) == [k |-> "ExprTable", Pairs |-> ps]
ExprVariable(n) == [k |-> "ExprVariable", Name |-> n]
ExprIndex(l, i) == [k |-> "ExprIndex", Left |-> l, Index |-> i]
ExprPropertyAccess(l, p) == [k |-> "ExprPropertyAccess", Left |-> l, Property |-> p]
ExprBinary(l, op, r) == [k |-> "ExprBinary", Left |-> l, Operator |-> op, Right |-> r]

FieldTypePair(f, t) == [Field |-> f, Type |-> t]
StmtCallFunction(n, args) == [k |-> "StmtCallFunction", FunctionName |-> n, Args |-> args]
StmtVarDeclare(n, t, e) ==
    [k |-> "StmtVarDeclare", VariableName |-> n, DataType |-> t, Expr |-> e]
StmtVarAssign(n, e) == [k |-> "StmtVarAssign", VariableName |-> n, Expr |-> e]
StmtObjDefine(n, fs) == [k |-> "StmtObjDefine", Name |-> n, Fields |-> fs]

\* what %T prints for a node
GoTypeName(e) == "parser." \o e.k

----------------------------------------------------------------------------
(* The compiler.  c is the compiler struct [sb, scope, variables, objects] *)
(* with the maps as functions; an operation returns [c, err].              *)

globalScope == 1

ErrInvalidTypeAssign == [is |-> {"invalid type assign"}, msg |-> <<"invalid type assign">>]

\* fmt.Errorf with arguments: the format, then the arguments
ErrorfArgs(format, args) == [is |-> {}, msg |-> <<format>> \o args]

\* errors.Join(a, b)
ErrorsJoin(a, b) == [is |-> a.is \cup b.is, msg |-> a.msg \o b.msg]

\* fmt.Errorf("%s", err.Error()): the text without the chain
ErrorText(err) == [is |-> {}, msg |-> err.msg]

\* a nil pointer dereference, and the runtime's fatal stack overflow: neither
\* is an error value, the process dies
GoPanic == [is |-> {"panic"}, msg |-> <<"invalid memory address or nil pointer dereference">>]
GoStackOverflow == [is |-> {"fatal"}, msg |-> <<"stack overflow">>]
Dies(err) == "panic" \in err.is \/ "fatal" \in err.is

\* fmt.Errorf("<ctx>: %w", err) on the way up, unless the process died
WrapErr(ctx, err) == IF Dies(err) THEN err ELSE Wrap(ctx, err)

NewCompiler == [sb |-> "", scope |-> 0, variables |-> <<>>, objects |-> <<>>]

Ok(c) == [c |-> c, err |-> NoErr]
Failed(c, err) == [c |-> c, err |-> err]
WriteString(c, text) == [c EXCEPT !.sb = @ \o text]
\* r with its error, if any, wrapped in ctx
Wrapped(ctx, r) == IF r.err = NoErr THEN r ELSE Failed(r.c, WrapErr(ctx, r.err))
\* the same for a context with arguments: fmt.Errorf("<ctx %q>: %w", arg, err)
WrappedArgs(ctx, args, r) ==
    IF r.err = NoErr \/ Dies(r.err) THEN r
    ELSE Failed(r.c, [is |-> r.err.is, msg |-> <<ctx>> \o args \o r.err.msg])

compileExprNumber(c, expr) == Ok(WriteString(c, expr.Value))
compileExprString(c, expr) == Ok(WriteString(c, "\"" \o expr.Value \o "\""))
compileExprBoolean(c, expr) == Ok(WriteString(c, expr.Value))
compileExprVariable(c, expr) == Ok(WriteString(c, expr.Name))

ZeroValueComma_Always(i, fieldsLen) == ","

\* the comma compileObjectZeroValue writes after field i of fieldsLen
ZeroValueComma(i, fieldsLen) == IF i < fieldsLen THEN "," ELSE ""

\* compileDataTypeZeroValue and compileObjectZeroValue.  calls holds the
\* object names whose compileObjectZeroValue call is on the stack: a name
\* that comes up again recurses without end, until the runtime's stack limit.
RECURSIVE compileDataTypeZeroValue(_, _, _)
RECURSIVE ObjectZeroValueLoop(_, _, _, _)
compileObjectZeroValue(c, dataType, calls) ==
    IF dataType.Name \notin DOMAIN c.objects
    THEN Failed(c, ErrorfArgs("object %q does not exist", <<dataType.Name>>))
    ELSE IF dataType.Name \in calls
    THEN Failed(c, GoStackOverflow)
    ELSE With(ObjectZeroValueLoop(WriteString(c, "{"), c.objects[dataType.Name], 1,
                                      calls \cup {dataType.Name}), LAMBDA r :
            IF r.err # NoErr THEN r ELSE Ok(WriteString(r.c, "}")))

ObjectZeroValueLoop(c, fields, i, calls) ==
    IF i > Len(fields) THEN Ok(c)
    ELSE LET c1 == WriteString(c, "\"" \o fields[i].Field \o "\"" \o ":") IN
             With(compileDataTypeZeroValue(c1, fields[i].Type, calls), LAMBDA r :
            IF r.err # NoErr THEN r
            ELSE ObjectZeroValueLoop(WriteString(r.c, ZeroValueComma(i, Len(fields))),
                                     fields, i + 1, calls))

compileDataTypeZeroValue(c, dataType, calls) ==
    IF dataType.k = "Custom"
    THEN compileObjectZeroValue(c, dataType, calls)
    ELSE Ok(WriteString(c, ZeroValue(dataType)))

RECURSIVE compileExpr(_, _)
RECURSIVE CommaSeparatedLoop(_, _, _)
RECURSIVE ExprTableLoop(_, _, _)

\* the for loop of compileCommaSeparatedExpressions, from argument i (from 1)
CommaSeparatedLoop(c, exprs, i) ==
    IF i > Len(exprs) THEN Ok(c)
    ELSE With(WrappedArgs("failed to compile argument %d", <<ToString(i - 1)>>,
                              compileExpr(c, exprs[i])), LAMBDA r :
         IF r.err # NoErr THEN r
         ELSE CommaSeparatedLoop(
                  IF i < Len(exprs) THEN WriteString(r.c, ",") ELSE r.c, exprs, i + 1))

compileCommaSeparatedExpressions(c, exprs) == CommaSeparatedLoop(c, exprs, 1)

compileExprBlock(c, expr) ==
    With(compileExpr(WriteString(c, "("), expr.Value), LAMBDA r :
    IF r.err # NoErr
    THEN Failed(r.c, WrapErr("failed to compile expression", r.err))
    ELSE Ok(WriteString(r.c, ")")))

compileExprList(c, expr) ==
    With(compileCommaSeparatedExpressions(WriteString(c, "["), expr.Values), LAMBDA r :
    IF r.err # NoErr
    THEN Failed(r.c, WrapErr("failed to compile comma separated expressions", r.err))
    ELSE Ok(WriteString(r.c, "]")))

\* the key switch of compileExprTable: a key of another kind writes nothing
CompileTableKey(c, key) ==
    CASE key.k = "ExprNumber" -> compileExprNumber(c, key).c
      [] key.k = "ExprString" -> compileExprString(c, key).c
      [] key.k = "ExprBoolean" -> compileExprBoolean(c, key).c
      [] key.k = "ExprVariable" ->
            WriteString(compileExprVariable(WriteString(c, "\""), key).c, "\"")
      [] OTHER -> c

ExprTableLoop(c, pairs, i) ==
    IF i > Len(pairs) THEN Ok(c)
    ELSE LET c1 == WriteString(CompileTableKey(c, pairs[i].Key), ":") IN
             With(compileExpr(c1, pairs[i].Value), LAMBDA r :
            IF r.err # NoErr
            THEN WrappedArgs("failed to compile value %d", <<ToString(i - 1)>>, r)
            ELSE ExprTableLoop(
                     IF i < Len(pairs) THEN WriteString(r.c, ",") ELSE r.c, pairs, i + 1))

compileExprTable(c, expr) ==
    With(ExprTableLoop(WriteString(c, "{"), expr.Pairs, 1), LAMBDA r :
    IF r.err # NoErr THEN r ELSE Ok(WriteString(r.c, "}")))

\* an adjustment for every declared variable, whatever its type
needsIndexAdjustment_AnyVariable(c, expr) ==
    /\ expr.Left.k = "ExprVariable"
    /\ expr.Left.Name \in DOMAIN c.variables

\* whether compileExprIndex adds 1 to the index
needsIndexAdjustment(c, expr) ==
    /\ expr.Left.k = "ExprVariable"
    /\ expr.Left.Name \in DOMAIN c.variables
    /\ c.variables[expr.Left.Name].dataType.k = "List"

compileExprIndex(c, expr) ==
    With(compileExpr(c, expr.Left), LAMBDA left :
    IF left.err # NoErr
    THEN Failed(left.c, WrapErr("failed to compile left side of index", left.err))
    ELSE IF needsIndexAdjustment(c, expr)
    THEN With(compileExpr(WriteString(left.c, "[" \o "("), expr.Index), LAMBDA r :
         IF r.err # NoErr
         THEN Failed(r.c, WrapErr("failed to compile index", r.err))
         ELSE Ok(WriteString(r.c, " + 1)" \o "]")))
    ELSE With(compileExpr(WriteString(left.c, "["), expr.Index), LAMBDA r :
         IF r.err # NoErr
         THEN Failed(r.c, WrapErr("failed to compile index", r.err))
         ELSE Ok(WriteString(r.c, "]"))))

compileExprPropertyAccess(c, expr) ==
    With(compileExpr(c, expr.Left), LAMBDA left :
    IF left.err # NoErr
    THEN Failed(left.c, WrapErr("failed to compile left side of property access", left.err))
    ELSE Ok(WriteString(left.c, "." \o expr.Property)))

compileExpr(c, expr) ==
    CASE expr.k = "ExprBlock" ->
            Wrapped("failed to compile expression block", compileExprBlock(c, expr))
      [] expr.k = "ExprNumber" ->
            Wrapped("failed to compile expression number", compileExprNumber(c, expr))
      [] expr.k = "ExprString" ->
            Wrapped("failed to compile expression string", compileExprString(c, expr))
      [] expr.k = "ExprBoolean" ->
            Wrapped("failed to compile expression boolean", compileExprBoolean(c, expr))
      [] expr.k = "ExprList" ->
            Wrapped("failed to compile expression list", compileExprList(c, expr))
      [] expr.k = "ExprTable" ->
            Wrapped("failed to compile expression table", compileExprTable(c, expr))
      [] expr.k = "ExprVariable" ->
            Wrapped("failed to compile expression variable", compileExprVariable(c, expr))
      [] expr.k = "ExprIndex" ->
            Wrapped("failed to compile expression index", compileExprIndex(c, expr))
      [] expr.k = "ExprPropertyAccess" ->
            Wrapped("failed to compile expression property access",
                    compileExprPropertyAccess(c, expr))
      [] OTHER -> Failed(c, ErrorfArgs("expected expr, got: %v", <<GoTypeName(expr)>>))

\* providedFields of compileExprTableWithZeroValues: the value of the last
\* pair whose key is the label `field`, NilExpr when there is none
RECURSIVE ProvidedField(_, _, _)
ProvidedField(pairs, field, i) ==
    IF i = 0 THEN NilExpr
    ELSE IF pairs[i].Key.k = "ExprVariable" /\ pairs[i].Key.Name = field
    THEN pairs[i].Value
    ELSE ProvidedField(pairs, field, i - 1)

IsProvided_Never(pairs, field) == FALSE

\* whether providedFields has the key `field`
IsProvided(pairs, field) ==
    \E i \in 1..Len(pairs) : pairs[i].Key.k = "ExprVariable" /\ pairs[i].Key.Name = field

RECURSIVE compileExprTableWithZeroValues(_, _, _)
RECURSIVE TableWithZeroValuesLoop(_, _, _, _)
compileExprTableWithZeroValues(c, expr, objectType) ==
    IF objectType.Name \notin DOMAIN c.objects
    THEN Failed(c, ErrorfArgs("object %q does not exist", <<objectType.Name>>))
    ELSE With(TableWithZeroValuesLoop(WriteString(c, "{"), expr.Pairs,
                                          c.objects[objectType.Name], 1), LAMBDA r :
            IF r.err # NoErr THEN r ELSE Ok(WriteString(r.c, "}")))

TableWithZeroValuesLoop(c, pairs, fields, i) ==
    IF i > Len(fields) THEN Ok(c)
    ELSE LET field == fields[i]
             c1 == WriteString(c, "\"" \o field.Field \o "\"" \o ":") IN
             With(ProvidedField(pairs, field.Field, Len(pairs)), LAMBDA value :
             With(IF IsProvided(pairs, field.Field)
                  THEN IF /\ value.k = "ExprTable"
                          /\ field.Type.k = "Custom"
                          /\ field.Type.Name \in DOMAIN c.objects
                       THEN WrappedArgs("failed to compile nested table with zero values for field %q",
                                        <<field.Field>>,
                                        compileExprTableWithZeroValues(c1, value, field.Type))
                       ELSE WrappedArgs("failed to compile value for field %q",
                                        <<field.Field>>, compileExpr(c1, value))
                  ELSE WrappedArgs("failed to compile zero value for field %q", <<field.Field>>,
                                   compileDataTypeZeroValue(c1, field.Type, {})), LAMBDA r :
            IF r.err # NoErr THEN r
            ELSE TableWithZeroValuesLoop(
                     IF i < Len(fields) THEN WriteString(r.c, ",") ELSE r.c,
                     pairs, fields, i + 1)))

\* the field of obj.fields that the key lookup of checkExpressionValidCustom
\* ends with: the last one named keyName, 0 when there is none
RECURSIVE LastFieldNamed(_, _, _)
LastFieldNamed(fields, keyName, i) ==
    IF i = 0 THEN 0
    ELSE IF fields[i].Field = keyName THEN i
    ELSE LastFieldNamed(fields, keyName, i - 1)

\* fmt.Errorf("expected %s got %T", dataType.String(), e)
ExpectedGot(dataType, expr) ==
    IF TypeStringPanics(dataType) THEN GoPanic
    ELSE ErrorfArgs("expected %s got %T", <<TypeString(dataType), GoTypeName(expr)>>)

\* checkExpressionValidDataType: the error, NoErr when the expression fits
RECURSIVE checkExpressionValidDataType(_, _, _)
RECURSIVE CheckListLoop(_, _, _, _)
RECURSIVE CheckMapLoop(_, _, _, _)
RECURSIVE CheckCustomLoop(_, _, _, _)

checkExpressionValidNumber(c, dataType, expr) ==
    IF expr.k = "ExprNumber" THEN NoErr ELSE ExpectedGot(dataType, expr)

checkExpressionValidString(c, dataType, expr) ==
    IF expr.k = "ExprString" THEN NoErr ELSE ExpectedGot(dataType, expr)

checkExpressionValidBoolean(c, dataType, expr) ==
    IF expr.k = "ExprBoolean" THEN NoErr ELSE ExpectedGot(dataType, expr)

CheckListLoop(c, dataType, values, i) ==
    IF i > Len(values) THEN NoErr
    ELSE With(checkExpressionValidDataType(c, dataType.ListType, values[i]), LAMBDA err :
         IF err # NoErr
         THEN WrapErr("failed to check if list type is valid data type", err)
         ELSE CheckListLoop(c, dataType, values, i + 1))

checkExpressionValidList(c, dataType, expr) ==
    IF expr.k # "ExprList" THEN ExpectedGot(dataType, expr)
    ELSE CheckListLoop(c, dataType, expr.Values, 1)

CheckMapLoop(c, dataType, pairs, i) ==
    IF i > Len(pairs) THEN NoErr
    ELSE With(checkExpressionValidDataType(c, dataType.KeyType, pairs[i].Key), LAMBDA kerr :
         IF kerr # NoErr
         THEN WrapErr("failed to check if map key type is valid data type", kerr)
         ELSE With(checkExpressionValidDataType(c, dataType.ValueType, pairs[i].Value), LAMBDA verr :
              IF verr # NoErr
              THEN WrapErr("failed to check if map value type is valid data type", verr)
              ELSE CheckMapLoop(c, dataType, pairs, i + 1)))

checkExpressionValidMap(c, dataType, expr) ==
    IF expr.k # "ExprTable" THEN ExpectedGot(dataType, expr)
    ELSE CheckMapLoop(c, dataType, expr.Pairs, 1)

CheckCustomLoop(c, dataType, pairs, i) ==
    IF i > Len(pairs) THEN NoErr
    ELSE IF pairs[i].Key.k # "ExprVariable"
    THEN ErrorfArgs("field type %T not a label", <<GoTypeName(pairs[i].Key)>>)
    ELSE LET fields == c.objects[dataType.Name] IN
             With(LastFieldNamed(fields, pairs[i].Key.Name, Len(fields)), LAMBDA f :
            IF f = 0
            THEN ErrorfArgs("key %q not found in object %q",
                            <<pairs[i].Key.Name, dataType.Name>>)
            ELSE With(checkExpressionValidDataType(c, fields[f].Type, pairs[i].Value), LAMBDA err :
                 IF err # NoErr THEN err
                 ELSE CheckCustomLoop(c, dataType, pairs, i + 1)))

checkExpressionValidCustom(c, dataType, expr) ==
    IF expr.k # "ExprTable"
    THEN ErrorfArgs("expected %q got %T", <<dataType.Name, GoTypeName(expr)>>)
    ELSE IF dataType.Name \notin DOMAIN c.objects
    THEN ErrorfArgs("object %q not found", <<dataType.Name>>)
    ELSE CheckCustomLoop(c, dataType, expr.Pairs, 1)

checkExpressionValidDataType(c, dataType, expr) ==
    CASE dataType.k = "Number" -> checkExpressionValidNumber(c, dataType, expr)
      [] dataType.k = "String" -> checkExpressionValidString(c, dataType, expr)
      [] dataType.k = "Boolean" -> checkExpressionValidBoolean(c, dataType, expr)
      [] dataType.k = "List" -> checkExpressionValidList(c, dataType, expr)
      [] dataType.k = "Map" -> checkExpressionValidMap(c, dataType, expr)
      [] dataType.k = "Custom" -> checkExpressionValidCustom(c, dataType, expr)
      [] OTHER -> ErrorfArgs("unknown type: %#v", <<dataType.k>>)

\* a compileStmtCallFunction that writes a comma after every argument
compileStmtCallFunction_TrailingComma(c, stmt) ==
    With(compileCommaSeparatedExpressions(
                 WriteString(c, stmt.FunctionName \o "("), stmt.Args), LAMBDA r :
       IF r.err # NoErr
       THEN Failed(r.c, WrapErr("failed to compile comma separated expressions", r.err))
       ELSE Ok(WriteString(r.c, IF Len(stmt.Args) > 0 THEN "," \o ")" ELSE ")")))

compileStmtCallFunction(c, stmt) ==
    With(compileCommaSeparatedExpressions(
                 WriteString(c, stmt.FunctionName \o "("), stmt.Args), LAMBDA r :
       IF r.err # NoErr
       THEN Failed(r.c, WrapErr("failed to compile comma separated expressions", r.err))
       ELSE Ok(WriteString(r.c, ")")))

\* the table of a declaration or assignment is expanded to the object's fields
IsObjectTable(c, dataType, expr) ==
    /\ expr.k = "ExprTable"
    /\ dataType.k = "Custom"
    /\ dataType.Name \in DOMAIN c.objects

\* a redeclaration check that looks at the entries of the current scope only
alreadyExists_CurrentScope(c, name) ==
    name \in DOMAIN c.variables /\ c.variables[name].scope = c.scope

\* _, ok := c.variables[stmt.VariableName]
alreadyExists(c, name) == name \in DOMAIN c.variables

\* a qualifier only from the second level of nesting on
needsLocal_DeeperOnly(c) == c.scope > globalScope + 1

\* if c.scope != globalScope
needsLocal(c) == c.scope # globalScope

\* a compileStmtVarDeclare that checks the initializer against the declared
\* type as compileStmtVarAssign does
compileStmtVarDeclare_Checked(c, stmt) ==
    IF alreadyExists(c, stmt.VariableName)
    THEN Failed(c, ErrorfArgs("variable %q already exists", <<stmt.VariableName>>))
    ELSE IF /\ stmt.Expr # NilExpr
            /\ checkExpressionValidDataType(c, stmt.DataType, stmt.Expr) # NoErr
    THEN Failed(c, ErrorsJoin(ErrInvalidTypeAssign,
                              ErrorText(checkExpressionValidDataType(c, stmt.DataType,
                                                                     stmt.Expr))))
    ELSE LET var == [scope |-> c.scope, dataType |-> stmt.DataType]
             c1 == [c EXCEPT !.variables = (stmt.VariableName :> var) @@ @]
             c2 == IF needsLocal(c1)
                   THEN WriteString(c1, Keyword_Local \o " ") ELSE c1
             c3 == WriteString(c2, stmt.VariableName \o " = ")
         IN IF stmt.Expr = NilExpr
            THEN Wrapped("failed to compile data type zero value",
                         compileDataTypeZeroValue(c3, var.dataType, {}))
            ELSE IF IsObjectTable(c3, var.dataType, stmt.Expr)
            THEN Wrapped("failed to compile expression table with zero values",
                         compileExprTableWithZeroValues(c3, stmt.Expr, var.dataType))
            ELSE Wrapped("failed to parse expression", compileExpr(c3, stmt.Expr))

compileStmtVarDeclare(c, stmt) ==
    IF alreadyExists(c, stmt.VariableName)
    THEN Failed(c, ErrorfArgs("variable %q already exists", <<stmt.VariableName>>))
    ELSE LET var == [scope |-> c.scope, dataType |-> stmt.DataType]
             c1 == [c EXCEPT !.variables = (stmt.VariableName :> var) @@ @]
             c2 == IF needsLocal(c1)
                   THEN WriteString(c1, Keyword_Local \o " ") ELSE c1
             c3 == WriteString(c2, stmt.VariableName \o " = ")
         IN IF stmt.Expr = NilExpr
            THEN Wrapped("failed to compile data type zero value",
                         compileDataTypeZeroValue(c3, var.dataType, {}))
            ELSE IF IsObjectTable(c3, var.dataType, stmt.Expr)
            THEN Wrapped("failed to compile expression table with zero values",
                         compileExprTableWithZeroValues(c3, stmt.Expr, var.dataType))
            ELSE Wrapped("failed to parse expression", compileExpr(c3, stmt.Expr))

InvalidTypeAssign_TextOnly(err) == ErrorText(err)

\* the error compileStmtVarAssign returns for a right-hand side that does not
\* fit the declared type
InvalidTypeAssign(err) ==
    IF Dies(err) THEN err ELSE ErrorsJoin(ErrInvalidTypeAssign, ErrorText(err))

\* the type check of compileStmtVarAssign, v the variable assigned to
CheckVarAssign(c, v, expr) ==
    IF expr.k = "ExprVariable"
    THEN IF expr.Name \notin DOMAIN c.variables
         THEN ErrorfArgs("variable %q does not exist", <<expr.Name>>)
         ELSE LET ev == c.variables[expr.Name] IN
              IF TypeStringPanics(v.dataType) \/ TypeStringPanics(ev.dataType)
              THEN GoPanic
              ELSE IF TypeString(v.dataType) # TypeString(ev.dataType)
              THEN ErrorsJoin(ErrInvalidTypeAssign,
                              ErrorfArgs("wanted %q got %q",
                                         <<TypeString(v.dataType), TypeString(ev.dataType)>>))
              ELSE NoErr
    ELSE With(checkExpressionValidDataType(c, v.dataType, expr), LAMBDA err :
         IF err # NoErr THEN InvalidTypeAssign(err) ELSE NoErr)

compileStmtVarAssign(c, stmt) ==
    IF stmt.VariableName \notin DOMAIN c.variables
    THEN Failed(c, ErrorfArgs("variable %q does not exist", <<stmt.VariableName>>))
    ELSE LET v == c.variables[stmt.VariableName] IN
             With(CheckVarAssign(c, v, stmt.Expr), LAMBDA err :
             LET c1 == WriteString(c, stmt.VariableName \o " = ")
         IN IF err # NoErr THEN Failed(c, err)
            ELSE IF IsObjectTable(c1, v.dataType, stmt.Expr)
            THEN Wrapped("failed to compile expression table with zero values",
                         compileExprTableWithZeroValues(c1, stmt.Expr, v.dataType))
            ELSE Wrapped("failed to parse expression", compileExpr(c1, stmt.Expr)))

\* a compileStmtObjDefine that replaces the fields of a registered object
compileStmtObjDefine_Overwrite(c, stmt) ==
    Ok([c EXCEPT !.objects = (stmt.Name :> stmt.Fields) @@ @])

compileStmtObjDefine(c, stmt) ==
    IF stmt.Name \in DOMAIN c.objects
    THEN Failed(c, ErrorfArgs("object definition %q already exists", <<stmt.Name>>))
    ELSE Ok([c EXCEPT !.objects = (stmt.Name :> stmt.Fields) @@ @])

\* compileStmt of a statement that is not a block
compileStmt(c, stmt) ==
    CASE stmt.k = "StmtCallFunction" ->
            Wrapped("failed to compile statement call function",
                    compileStmtCallFunction(c, stmt))
      [] stmt.k = "StmtVarDeclare" ->
            Wrapped("failed to compile statement variable declare",
                    compileStmtVarDeclare(c, stmt))
      [] stmt.k = "StmtVarAssign" ->
            Wrapped("failed to compile statement assign", compileStmtVarAssign(c, stmt))
      [] stmt.k = "StmtObjDefine" ->
            Wrapped("failed to compile statement object define",
                    compileStmtObjDefine(c, stmt))
      [] OTHER -> Failed(c, ErrorfArgs("expected statement, got: %v", <<stmt.k>>))

----------------------------------------------------------------------------
(* The parser.  An operation takes the lexer p.lexer is at and returns the *)
(* lexer it leaves, the node (or data type) and the error: [l, v, err].    *)

NilStmt == [k |-> "nil"]
NilType == [k |-> "nil"]
StmtBlock(ss) == [k |-> "StmtBlock", Stmts |-> ss]

PR(l, v, err) == [l |-> l, v |-> v, err |-> err]

\* errors.Is(err, io.EOF)
IsEOF(err) == \A sentinel \in io_EOF.is : ErrorsIs(err, sentinel)

precedenceLowest == 0
precedenceComparison == 1
precedenceSum == 2
precedenceProduct == 3

\* a getPrecedence with one level for all four operators
getPrecedence_Flat(tokenType) ==
    CASE tokenType \in {TokenType_Plus, TokenType_Minus, TokenType_Asterisk,
                        TokenType_ForwardSlash} -> precedenceSum
      [] OTHER -> precedenceLowest

\* the six comparison token types are not among the token types GetToken
\* returns
getPrecedence(tokenType) ==
    CASE tokenType \in {TokenType_EqualEqual, TokenType_BangEqual, TokenType_LessThan,
                        TokenType_LessThanEqual, TokenType_GreaterThan,
                        TokenType_GreaterThanEqual} -> precedenceComparison
      [] tokenType \in {TokenType_Plus, TokenType_Minus} -> precedenceSum
      [] tokenType \in {TokenType_Asterisk, TokenType_ForwardSlash} -> precedenceProduct
      [] OTHER -> precedenceLowest

RECURSIVE parseDataType(_)

parseDataTypeList(l) ==
    With(GetToken(l), LAMBDA open :
    IF open.err # NoErr
    THEN PR(open.l, List(NilType), Wrap("failed to get open bracket token", open.err))
    ELSE IF open.tok.Type # TokenType_OpenBracket
    THEN PR(open.l, List(NilType),
            ErrorfArgs("expected open bracket, got %q", <<open.tok.Type>>))
    ELSE With(parseDataType(open.l), LAMBDA sub :
         IF sub.err # NoErr
         THEN PR(sub.l, List(NilType), Wrap("failed to parse list sub data type", sub.err))
         ELSE With(GetToken(sub.l), LAMBDA close :
              IF close.err # NoErr
              THEN PR(close.l, List(NilType),
                      Wrap("failed to get close bracket token", close.err))
              ELSE IF close.tok.Type # TokenType_CloseBracket
              THEN PR(close.l, List(NilType),
                      ErrorfArgs("expected close bracket, got %q", <<close.tok.Type>>))
              ELSE PR(close.l, List(sub.v), NoErr))))

parseDataTypeMap(l) ==
    With(ConsumeToken(l, TokenType_OpenBracket), LAMBDA open :
    IF open.err # NoErr
    THEN PR(open.l, Map(NilType, NilType), Wrap("failed to consume open bracket", open.err))
    ELSE With(parseDataType(open.l), LAMBDA key :
         IF key.err # NoErr
         THEN PR(key.l, Map(NilType, NilType), Wrap("failed to parse key data type", key.err))
         ELSE With(ConsumeToken(key.l, TokenType_Colon), LAMBDA colon :
              IF colon.err # NoErr
              THEN PR(colon.l, Map(NilType, NilType),
                      Wrap("failed to consume colon separator", colon.err))
              ELSE With(parseDataType(colon.l), LAMBDA value :
                   IF value.err # NoErr
                   THEN PR(value.l, Map(NilType, NilType),
                           Wrap("failed to parse value data type", value.err))
                   ELSE With(ConsumeToken(value.l, TokenType_CloseBracket), LAMBDA close :
                        IF close.err # NoErr
                        THEN PR(close.l, Map(NilType, NilType),
                                Wrap("failed to consume close bracket", close.err))
                        ELSE PR(close.l, Map(key.v, value.v), NoErr))))))

parseDataType(l) ==
    With(GetToken(l), LAMBDA g :
    IF g.err # NoErr
    THEN PR(g.l, NilType, Wrap("failed to get label token", g.err))
    ELSE IF g.tok.Type # TokenType_Label
    THEN PR(g.l, NilType, ErrorfArgs("expected label, got %q", <<g.tok.Type>>))
    ELSE IF Len(g.tok.Value) = 0
    THEN PR(g.l, NilType, Errorf("data type is empty"))
    ELSE CASE g.tok.Value = Keyword_Number -> PR(g.l, Number, NoErr)
           [] g.tok.Value = Keyword_String -> PR(g.l, String, NoErr)
           [] g.tok.Value = Keyword_Boolean -> PR(g.l, Boolean, NoErr)
           [] g.tok.Value = Keyword_List ->
                 With(parseDataTypeList(g.l), LAMBDA r :
                 IF r.err # NoErr
                 THEN PR(r.l, r.v, Wrap("failed to parse data type list", r.err))
                 ELSE r)
           [] g.tok.Value = Keyword_Map ->
                 With(parseDataTypeMap(g.l), LAMBDA r :
                 IF r.err # NoErr
                 THEN PR(r.l, r.v, Wrap("failed to parse data type map", r.err))
                 ELSE r)
           [] OTHER -> PR(g.l, Custom(g.tok.Value), NoErr))

parseExprNumberLiteral(l) ==
    With(GetToken(l), LAMBDA g :
    IF g.err # NoErr THEN PR(g.l, ExprNumber(""), Wrap("failed to get token", g.err))
    ELSE IF Len(g.tok.Value) = 0
    THEN PR(g.l, ExprNumber(""), Errorf("token value is empty"))
    ELSE PR(g.l, ExprNumber(g.tok.Value), NoErr))

parseExprStringLiteral(l) ==
    With(GetToken(l), LAMBDA g :
    IF g.err # NoErr THEN PR(g.l, ExprString(""), Wrap("failed to get token", g.err))
    ELSE PR(g.l, ExprString(g.tok.Value), NoErr))

parseExprBooleanLiteral(l) ==
    With(GetToken(l), LAMBDA g :
    IF g.err # NoErr THEN PR(g.l, ExprBoolean(""), Wrap("failed to get token", g.err))
    ELSE IF g.tok.Value # "true" /\ g.tok.Value # "false"
    THEN PR(g.l, ExprBoolean(""), ErrorfArgs("expected boolean, got: %v", <<g.tok.Type>>))
    ELSE PR(g.l, ExprBoolean(g.tok.Value), NoErr))

parseExprLabel(l) ==
    With(GetToken(l), LAMBDA g :
    IF g.err # NoErr THEN PR(g.l, NilExpr, Wrap("failed to get label token", g.err))
    ELSE IF Len(g.tok.Value) = 0 THEN PR(g.l, NilExpr, Errorf("label is empty"))
    ELSE PR(g.l, ExprVariable(g.tok.Value), NoErr))

RECURSIVE parseExpr(_)
RECURSIVE ExprIndexLoop(_, _)
RECURSIVE parseExprWithPrecedence(_, _)
RECURSIVE PrecedenceLoop(_, _, _)
RECURSIVE parseExprBase(_)
RECURSIVE parseExprList(_)
RECURSIVE ExprListLoop(_, _)
RECURSIVE parseExprTable(_)
RECURSIVE ExprMapLoop(_, _)

\* the indexing loop of parseExpr, expr parsed so far
ExprIndexLoop(l, expr) ==
    With(PeekToken(l), LAMBDA pk :
    IF pk.err # NoErr
    THEN IF IsEOF(pk.err) THEN PR(pk.l, expr, NoErr)
         ELSE PR(pk.l, expr, Wrap("failed to peek token", pk.err))
    ELSE IF pk.tok.Type = TokenType_OpenBracket
    THEN With(GetToken(pk.l), LAMBDA open :
         IF open.err # NoErr
         THEN PR(open.l, expr, Wrap("failed to consume open bracket token", open.err))
         ELSE With(parseExpr(open.l), LAMBDA index :
              IF index.err # NoErr
              THEN PR(index.l, expr, Wrap("failed to parse index expression", index.err))
              ELSE With(PeekToken(index.l), LAMBDA close :
                   IF close.err # NoErr
                   THEN PR(close.l, expr,
                           Wrap("failed to peek close bracket token", close.err))
                   ELSE IF close.tok.Type # TokenType_CloseBracket
                   THEN PR(close.l, expr,
                           ErrorfArgs("expected ']', got %q", <<close.tok.Type>>))
                   ELSE With(GetToken(close.l), LAMBDA got :
                        IF got.err # NoErr
                        THEN PR(got.l, expr,
                                Wrap("failed to consume close bracket token", got.err))
                        ELSE ExprIndexLoop(got.l, ExprIndex(expr, index.v))))))
    ELSE IF pk.tok.Type = TokenType_Period
    THEN With(GetToken(pk.l), LAMBDA dot :
         IF dot.err # NoErr
         THEN PR(dot.l, expr, Wrap("failed to consume period token", dot.err))
         ELSE With(GetToken(dot.l), LAMBDA label :
              IF label.err # NoErr
              THEN PR(label.l, expr, Wrap("failed to get property label token", label.err))
              ELSE IF label.tok.Type # TokenType_Label
              THEN PR(label.l, expr,
                      ErrorfArgs("expected label after '.', got %q", <<label.tok.Type>>))
              ELSE ExprIndexLoop(label.l, ExprPropertyAccess(expr, label.tok.Value))))
    ELSE PR(pk.l, expr, NoErr))

parseExpr(l) ==
    With(parseExprWithPrecedence(l, precedenceLowest), LAMBDA r :
    IF r.err # NoErr THEN r ELSE ExprIndexLoop(r.l, r.v))

\* the operator loop of parseExprWithPrecedence, expr parsed so far
PrecedenceLoop(l, expr, precedence) ==
    With(PeekToken(l), LAMBDA pk :
    IF pk.err # NoErr
    THEN IF IsEOF(pk.err) THEN PR(pk.l, expr, NoErr)
         ELSE PR(pk.l, expr, Wrap("failed to peek token", pk.err))
    ELSE IF getPrecedence(pk.tok.Type) <= precedence
    THEN PR(pk.l, expr, NoErr)
    ELSE With(GetToken(pk.l), LAMBDA op :
         IF op.err # NoErr
         THEN PR(op.l, expr, Wrap("failed to consume operator token", op.err))
         ELSE With(parseExprWithPrecedence(op.l, getPrecedence(pk.tok.Type)), LAMBDA right :
              IF right.err # NoErr
              THEN PR(right.l, expr,
                      Wrap("failed to parse right side of operator", right.err))
              ELSE PrecedenceLoop(right.l, ExprBinary(expr, pk.tok.Type, right.v),
                                  precedence))))

parseExprWithPrecedence(l, precedence) ==
    With(parseExprBase(l), LAMBDA base :
    IF base.err # NoErr THEN base ELSE PrecedenceLoop(base.l, base.v, precedence))

\* r with its error, if any, wrapped in ctx
WrappedPR(ctx, r) == IF r.err = NoErr THEN r ELSE PR(r.l, r.v, Wrap(ctx, r.err))

parseExprBase(l) ==
    With(PeekToken(l), LAMBDA pk :
    IF pk.err # NoErr THEN PR(pk.l, NilExpr, Wrap("failed to peek token", pk.err))
    ELSE CASE pk.tok.Type = TokenType_NumberLiteral ->
                 WrappedPR("failed to parse number literal", parseExprNumberLiteral(pk.l))
           [] pk.tok.Type = TokenType_StringLiteral ->
                 WrappedPR("failed to parse string literal", parseExprStringLiteral(pk.l))
           [] pk.tok.Type = TokenType_BooleanLiteral ->
                 WrappedPR("failed to parse boolean literal", parseExprBooleanLiteral(pk.l))
           [] pk.tok.Type = TokenType_OpenParan ->
                 With(GetToken(pk.l), LAMBDA open :
                 IF open.err # NoErr
                 THEN PR(open.l, NilExpr, Wrap("failed to consume open parenthesis", open.err))
                 ELSE With(parseExpr(open.l), LAMBDA inner :
                      IF inner.err # NoErr
                      THEN PR(inner.l, inner.v,
                              Wrap("failed to parse expression in parentheses", inner.err))
                      ELSE With(ConsumeToken(inner.l, TokenType_CloseParan), LAMBDA close :
                           IF close.err # NoErr
                           THEN PR(close.l, inner.v,
                                   Wrap("failed to consume close parenthesis", close.err))
                           ELSE PR(close.l, ExprBlock(inner.v), NoErr))))
           [] pk.tok.Type = TokenType_OpenBracket ->
                 WrappedPR("failed to parse list expression", parseExprList(pk.l))
           [] pk.tok.Type = TokenType_OpenBrace ->
                 WrappedPR("failed to parse table expression", parseExprTable(pk.l))
           [] pk.tok.Type = TokenType_Label ->
                 WrappedPR("failed to parse label expression", parseExprLabel(pk.l))
           [] OTHER ->
                 PR(pk.l, NilExpr, ErrorfArgs("expected expression, got %q", <<pk.tok.Type>>)))

\* the loop of parseExprList, exprs parsed so far
ExprListLoop(l, exprs) ==
    With(parseExpr(l), LAMBDA e :
    IF e.err # NoErr
    THEN PR(e.l, ExprList(<<>>), Wrap("failed to parse expression", e.err))
    ELSE With(PeekToken(e.l), LAMBDA next :
         IF next.err # NoErr
         THEN PR(next.l, ExprList(<<>>), Wrap("failed to peek token", next.err))
         ELSE IF next.tok.Type = TokenType_CloseBracket
         THEN With(GetToken(next.l), LAMBDA got :
              IF got.err # NoErr
              THEN PR(got.l, ExprList(<<>>), Wrap("failed to get close paran token", got.err))
              ELSE PR(got.l, ExprList(Append(exprs, e.v)), NoErr))
         ELSE IF next.tok.Type = TokenType_Comma
         THEN With(GetToken(next.l), LAMBDA got :
              IF got.err # NoErr
              THEN PR(got.l, ExprList(<<>>), Wrap("failed to get comma token", got.err))
              ELSE ExprListLoop(got.l, Append(exprs, e.v)))
         ELSE PR(next.l, ExprList(<<>>),
                 ErrorfArgs("unexpected token %q", <<next.tok.Type>>))))

parseExprList(l) ==
    With(GetToken(l), LAMBDA open :
    IF open.err # NoErr
    THEN PR(open.l, ExprList(<<>>), Wrap("failed to consume open bracket", open.err))
    ELSE IF open.tok.Type # TokenType_OpenBracket
    THEN PR(open.l, ExprList(<<>>),
            ErrorfArgs("expected open bracket, got %q", <<open.tok.Type>>))
    ELSE ExprListLoop(open.l, <<>>))

\* the loop of parseExprTable, pairs parsed so far
ExprMapLoop(l, pairs) ==
    With(parseExpr(l), LAMBDA key :
    IF key.err # NoErr
    THEN PR(key.l, ExprTable(<<>>), Wrap("failed to parse key expression", key.err))
    ELSE With(ConsumeToken(key.l, TokenType_Colon), LAMBDA colon :
         IF colon.err # NoErr
         THEN PR(colon.l, ExprTable(<<>>), Wrap("failed to consume colon", colon.err))
         ELSE With(parseExpr(colon.l), LAMBDA value :
              IF value.err # NoErr
              THEN PR(value.l, ExprTable(<<>>),
                      Wrap("failed to parse value expression", value.err))
              ELSE With(PeekToken(value.l), LAMBDA next :
                       With(Append(pairs, TablePair(key.v, value.v)), LAMBDA more :
                   IF next.err # NoErr
                   THEN PR(next.l, ExprTable(<<>>), Wrap("failed to peek token", next.err))
                   ELSE IF next.tok.Type = TokenType_CloseBrace
                   THEN With(GetToken(next.l), LAMBDA got :
                        IF got.err # NoErr
                        THEN PR(got.l, ExprTable(<<>>),
                                Wrap("failed to get close brace token", got.err))
                        ELSE PR(got.l, ExprTable(more), NoErr))
                   ELSE IF next.tok.Type = TokenType_Comma
                   THEN With(ConsumeToken(next.l, TokenType_Comma), LAMBDA got :
                        IF got.err # NoErr
                        THEN PR(got.l, ExprTable(<<>>),
                                Wrap("failed to consume comma token", got.err))
                        ELSE ExprMapLoop(got.l, more))
                   ELSE PR(next.l, ExprTable(<<>>),
                           ErrorfArgs("unexpected token %q", <<next.tok.Type>>)))))))

parseExprTable(l) ==
    With(ConsumeToken(l, TokenType_OpenBrace), LAMBDA open :
    IF open.err # NoErr
    THEN PR(open.l, ExprTable(<<>>), Wrap("failed to consume open brace token", open.err))
    ELSE ExprMapLoop(open.l, <<>>))

\* the loop of parseStmtCallFunction, exprs parsed so far
RECURSIVE CallFunctionLoop(_, _, _)
CallFunctionLoop(l, tokLabel, exprs) ==
    With(parseExpr(l), LAMBDA e :
        With(StmtCallFunction("", <<>>), LAMBDA none :
    IF e.err # NoErr THEN PR(e.l, none, Wrap("failed to parse expression", e.err))
    ELSE With(PeekToken(e.l), LAMBDA next :
         IF next.err # NoErr THEN PR(next.l, none, Wrap("failed to peek token", next.err))
         ELSE IF next.tok.Type = TokenType_CloseParan
         THEN With(GetToken(next.l), LAMBDA got :
              IF got.err # NoErr
              THEN PR(got.l, none, Wrap("failed to get close paran token", got.err))
              ELSE PR(got.l, StmtCallFunction(tokLabel.Value, Append(exprs, e.v)), NoErr))
         ELSE IF next.tok.Type = TokenType_Comma
         THEN With(GetToken(next.l), LAMBDA got :
              IF got.err # NoErr
              THEN PR(got.l, none, Wrap("failed to get comma token", got.err))
              ELSE CallFunctionLoop(got.l, tokLabel, Append(exprs, e.v)))
         ELSE PR(next.l, none, ErrorfArgs("unexpected token %q", <<next.tok.Type>>)))))

parseStmtCallFunction(l, tokLabel) ==
    With(GetToken(l), LAMBDA open :
    IF open.err # NoErr
    THEN PR(open.l, StmtCallFunction("", <<>>),
            Wrap("failed to get open paran token", open.err))
    ELSE CallFunctionLoop(open.l, tokLabel, <<>>))

parseStmtVarDeclare(l, tokLabel) ==
    With(StmtVarDeclare("", NilType, NilExpr), LAMBDA none :
    IF Len(tokLabel.Value) = 0 THEN PR(l, none, Errorf("variable name is empty"))
    ELSE IF tokLabel.Value \in IllegalKeywords
    THEN PR(l, none, ErrorfArgs("variable name %q is illegal", <<tokLabel.Value>>))
    ELSE With(parseDataType(l), LAMBDA dataType :
         IF dataType.err # NoErr
         THEN PR(dataType.l, none, Wrap("failed to parse data type", dataType.err))
         ELSE With(PeekToken(dataType.l), LAMBDA equal :
              IF equal.err # NoErr
              THEN IF IsEOF(equal.err)
                   THEN PR(equal.l, StmtVarDeclare(tokLabel.Value, dataType.v, NilExpr), NoErr)
                   ELSE PR(equal.l, none, Wrap("failed to peek equal token", equal.err))
              ELSE IF equal.tok.Type = TokenType_Equal
              THEN With(GetToken(equal.l), LAMBDA got :
                   IF got.err # NoErr
                   THEN PR(got.l, none, Wrap("failed to consume equal token", got.err))
                   ELSE With(parseExpr(got.l), LAMBDA e :
                        IF e.err # NoErr
                        THEN PR(e.l, none, Wrap("failed to parse expression", e.err))
                        ELSE PR(e.l, StmtVarDeclare(tokLabel.Value, dataType.v, e.v), NoErr)))
              ELSE PR(equal.l, StmtVarDeclare(tokLabel.Value, dataType.v, NilExpr), NoErr))))

\* the loop of parseStmtObjDefine, fields parsed so far
RECURSIVE ObjDefineLoop(_, _, _)
ObjDefineLoop(l, tokLabel, fields) ==
    With(GetToken(l), LAMBDA name :
        With(StmtObjDefine("", <<>>), LAMBDA none :
    IF name.err # NoErr
    THEN PR(name.l, none, Wrap("failed to get field name token", name.err))
    ELSE IF name.tok.Type # TokenType_Label
    THEN PR(name.l, none, ErrorfArgs("expected label, got %q", <<name.tok.Type>>))
    ELSE With(parseDataType(name.l), LAMBDA fieldType :
         IF fieldType.err # NoErr
         THEN PR(fieldType.l, none, Wrap("failed to parse field type", fieldType.err))
         ELSE With(Append(fields, FieldTypePair(name.tok.Value, fieldType.v)), LAMBDA more :
                  With(PeekToken(fieldType.l), LAMBDA next :
              IF next.err # NoErr
              THEN PR(next.l, none, Wrap("failed to peek token", next.err))
              ELSE IF next.tok.Type = TokenType_CloseBrace
              THEN With(GetToken(next.l), LAMBDA got :
                   IF got.err # NoErr
                   THEN PR(got.l, none, Wrap("failed to get close brace token", got.err))
                   ELSE PR(got.l, StmtObjDefine(tokLabel.Value, more), NoErr))
              ELSE IF next.tok.Type = TokenType_Label
              THEN ObjDefineLoop(next.l, tokLabel, more)
              ELSE PR(next.l, none, ErrorfArgs("unexpected token %q", <<next.tok.Type>>)))))))

parseStmtObjDefine(l, tokLabel) ==
    With(StmtObjDefine("", <<>>), LAMBDA none :
    IF Len(tokLabel.Value) = 0 THEN PR(l, none, Errorf("object name is empty"))
    ELSE IF tokLabel.Value \in IllegalKeywords
    THEN PR(l, none, ErrorfArgs("variable name %q is illegal", <<tokLabel.Value>>))
    ELSE With(GetToken(l), LAMBDA obj :
         IF obj.err # NoErr
         THEN PR(obj.l, none, Wrap("failed to consume the obj token", obj.err))
         ELSE IF obj.tok.Value # Keyword_Object
         THEN PR(obj.l, none, ErrorfArgs("expected \"obj\" got %q", <<obj.tok.Value>>))
         ELSE With(ConsumeToken(obj.l, TokenType_OpenBrace), LAMBDA open :
              IF open.err # NoErr
              THEN PR(open.l, none, Wrap("failed to consume open brace", open.err))
              ELSE ObjDefineLoop(open.l, tokLabel, <<>>))))

parseStmtVarAssign(l, tokLabel) ==
    With(StmtVarAssign("", NilExpr), LAMBDA none :
    IF Len(tokLabel.Value) = 0 THEN PR(l, none, Errorf("variable name is empty"))
    ELSE With(GetToken(l), LAMBDA equal :
         IF equal.err # NoErr
         THEN PR(equal.l, none, Wrap("failed to consume equal token", equal.err))
         ELSE With(parseExpr(equal.l), LAMBDA e :
              IF e.err # NoErr
              THEN PR(e.l, none, Wrap("failed to parse expression", e.err))
              ELSE PR(e.l, StmtVarAssign(tokLabel.Value, e.v), NoErr))))

\* a parseStmtLabel for which no label is the object keyword
IsObjectKeyword_Never(tok) == FALSE

\* tokNext.Value == shared.Keyword_Object
IsObjectKeyword(tok) == tok.Value = Keyword_Object

parseStmtLabel(l) ==
    With(GetToken(l), LAMBDA label :
    IF label.err # NoErr
    THEN PR(label.l, NilStmt, Wrap("failed to get label token", label.err))
    ELSE With(PeekToken(label.l), LAMBDA next :
         IF next.err # NoErr
         THEN PR(next.l, NilStmt, Wrap("failed to peek token", next.err))
         ELSE CASE next.tok.Type = TokenType_OpenParan ->
                      WrappedPR("failed to parse statement call function",
                                parseStmtCallFunction(next.l, label.tok))
                [] next.tok.Type = TokenType_Label /\ IsObjectKeyword(next.tok) ->
                      WrappedPR("failed to parse statement object define",
                                parseStmtObjDefine(next.l, label.tok))
                [] next.tok.Type = TokenType_Label /\ ~IsObjectKeyword(next.tok) ->
                      WrappedPR("failed to parse statement variable declare",
                                parseStmtVarDeclare(next.l, label.tok))
                [] next.tok.Type = TokenType_Equal ->
                      WrappedPR("failed to parse statement variable assign",
                                parseStmtVarAssign(next.l, label.tok))
                [] OTHER ->
                      PR(next.l, NilStmt,
                         ErrorfArgs("expected label statement, got %q %q",
                                    <<label.tok.Type, next.tok.Type>>))))

\* parseStmt: a token that is not a Label is left where it is, and no
\* statement and no error is returned
parseStmt(l) ==
    With(PeekToken(l), LAMBDA tok :
    IF tok.err # NoErr THEN PR(tok.l, NilStmt, Wrap("failed to peek token", tok.err))
    ELSE IF tok.tok.Type = TokenType_Label
    THEN WrappedPR("failed to parse label", parseStmtLabel(tok.l))
    ELSE PR(tok.l, NilStmt, NoErr))

----------------------------------------------------------------------------
(* The lexer as a state machine: a caller that calls GetToken and          *)
(* PeekToken in any order on one lexer.                                    *)

\* the runes lexer inputs are drawn from: a letter, a digit, a space, a line
\* end, the quote, the period, the slash, a punctuation rune, an invalid rune
LexAlphabet == {"a", "1", " ", "\n", "\"", ".", "/", "(", "$"}

RECURSIVE SeqsUpTo(_, _)
SeqsUpTo(S, n) ==
    IF n = 0 THEN {<<>>}
    ELSE LET shorter == SeqsUpTo(S, n - 1) IN
         shorter \cup {Append(s, x) : s \in {t \in shorter : Len(t) = n - 1}, x \in S}

\* inputs of the lexer's own tests (TestGetToken, TestErrorHandling,
\* TestEdgeCasesAndUnicode), and runes of each class outside a-z and 0-9
LexSamples ==
    { <<"h", "U+00E9", "l", "l", "o">>,
      <<"U+0660", "U+0661", "U+0662">>,
      <<"U+11F50", " ", "U+11F04", "U+03B1">>,
      <<"A", "\f", "Z", "U+00A0", "U+2160">>,
      <<"h", "\t", "\n", " ", " ", "w">> } \cup
    { <<"t", "r", "u", "e", " ", "f", "a", "l", "s", "e">>,
      <<"\"", "h", "e", "l", "l", "o", " ", "$">>,
      <<"3", ".", "1", "4", ".", "1", "5">>,
      <<".", "5">>,
      <<"a", " ", "$", "(">>,
      <<"h", "e", "l", "l", "o", " ", "4", "2", " ", "w", "o", "r", "l", "d">>,
      <<"a", " ", "/", "/", "$", "\"">> }

LexInputs == SeqsUpTo(LexAlphabet, MaxLen) \cup LexSamples

\* the record of a call: which operation, the cursor and buffer it found,
\* what it returned, and the token a successful PeekToken returned right
\* before it (NilToken when the call before was not a successful PeekToken)
CallRecord(op, l, r, peeked) ==
    [op |-> op, from |-> l.index, buffered |-> l.buf # NilToken,
     tok |-> r.tok, err |-> r.err, peeked |-> peeked]

LastPeeked == IF lres.op = "Peek" /\ lres.err = NoErr THEN lres.tok ELSE NilToken

NewCallRecord ==
    [op |-> "New", from |-> 0, buffered |-> FALSE,
     tok |-> ZeroToken, err |-> NoErr, peeked |-> NilToken]

\* no Compile call is running
CompIdle ==
    /\ comp = NewCompiler
    /\ cpc = "idle"
    /\ lua = ""
    /\ cerr = NoErr
    /\ nStmts = 0
    /\ clast = [op |-> "none"]
    /\ declared = <<>>
    /\ scn = "none"

\* no Parse call is running
ParIdle ==
    /\ stmts = <<>>
    /\ ppc = "idle"
    /\ pnode = NilStmt
    /\ perr = NoErr
    /\ piter = 0

InitLex ==
    /\ \E input \in LexInputs : lexer = NewLexer(input)
    /\ lres = NewCallRecord
    /\ nGot = 0
    /\ CompIdle
    /\ ParIdle

CallGetToken ==
    LET r == GetToken(lexer) IN
    /\ lexer' = r.l
    /\ lres' = CallRecord("Get", lexer, r, LastPeeked)
    /\ nGot' = IF r.err = NoErr THEN nGot + 1 ELSE nGot
    /\ UNCHANGED compVars
    /\ UNCHANGED parVars

CallPeekToken ==
    LET r == PeekToken(lexer) IN
    /\ lexer' = r.l
    /\ lres' = CallRecord("Peek", lexer, r, LastPeeked)
    /\ nGot' = nGot
    /\ UNCHANGED compVars
    /\ UNCHANGED parVars

NextLex == CallGetToken \/ CallPeekToken

SpecLex == InitLex /\ [][NextLex]_vars

\* a caller that drains the lexer keeps calling GetToken
SpecLexFair == SpecLex /\ WF_vars(CallGetToken)

----------------------------------------------------------------------------
(* Claims about the lexer.                                                 *)

\* the tokens a caller gets by calling GetToken on a fresh lexer until it
\* returns an error, and that error (the loop of TestGetToken)
RECURSIVE Drain(_)
Drain(l) ==
    LET g == GetToken(l) IN
    IF g.err # NoErr THEN [toks |-> <<>>, err |-> g.err]
    ELSE LET rest == Drain(g.l) IN
         [toks |-> <<g.tok>> \o rest.toks, err |-> rest.err]

\* C1: a token returned by PeekToken is returned again by every PeekToken
\* that follows directly and by the next GetToken, and the tokens GetToken
\* hands out are, in order, the tokens of the input: PeekToken consumes
\* nothing, and a GetToken after it moves on by exactly one token.
C1_PeekThenGet ==
    LET d == Drain(NewLexer(lexer.input))
        n == PeekToken(lexer)
    IN
    /\ (lres.op = "Peek" /\ lres.err = NoErr) =>
           /\ lexer.buf = lres.tok
           /\ nGot < Len(d.toks)
           /\ lres.tok = d.toks[nGot + 1]
    /\ lres.peeked # NilToken => (lres.err = NoErr /\ lres.tok = lres.peeked)
    /\ (lres.op = "Get" /\ lres.err = NoErr) =>
           /\ nGot <= Len(d.toks)
           /\ lres.tok = d.toks[nGot]
           /\ IF nGot < Len(d.toks)
              THEN n.err = NoErr /\ n.tok = d.toks[nGot + 1]
              ELSE n.err = d.err

\* PeekToken, PeekToken, GetToken on the second token of the input
C1_Witness ==
    /\ lres.op = "Get" /\ lres.err = NoErr /\ lres.peeked # NilToken
    /\ lres.buffered
    /\ nGot = 2
    /\ lexer.input = <<"a", " ", "1">>
    /\ lres.tok = Token(TokenType_NumberLiteral, "1")

\* the input holds no invalid rune outside strings and comments, and every
\* string literal it opens is closed (mode: "code", "string" or "comment")
RECURSIVE WellFormedFrom(_, _, _)
WellFormedFrom(input, i, mode) ==
    IF i > Len(input) THEN mode # "string"
    ELSE CASE mode = "string" ->
                WellFormedFrom(input, i + 1, IF input[i] = "\"" THEN "code" ELSE "string")
           [] mode = "comment" ->
                WellFormedFrom(input, i + 1,
                               IF input[i] \in {"\n", "\r"} THEN "code" ELSE "comment")
           [] OTHER ->
                IF input[i] = "\"" THEN WellFormedFrom(input, i + 1, "string")
                ELSE IF input[i] = "/" /\ i < Len(input) /\ input[i + 1] = "/"
                THEN WellFormedFrom(input, i + 2, "comment")
                ELSE /\ \/ unicodeIsSpace(input[i])
                        \/ isLabelRune(input[i])
                        \/ input[i] \in DOMAIN TokenTypeCharactersMap \cup {"."}
                     /\ WellFormedFrom(input, i + 1, "code")

WellFormed(input) == WellFormedFrom(input, 1, "code")

\* C2: on an input with no invalid rune and no unterminated string no call
\* returns a lex error, a caller that keeps calling GetToken gets io.EOF
\* after finitely many tokens, and once a call returned io.EOF every later
\* GetToken and PeekToken returns io.EOF.
C2_EndOfInput ==
    /\ [](WellFormed(lexer.input) => lres.err \in {NoErr, io_EOF})
    /\ (WellFormed(lexer.input) => <>(lres.op = "Get" /\ lres.err = io_EOF))
    /\ [][lres.err = io_EOF => lres'.err = io_EOF]_vars

\* the input ends inside a comment: io.EOF after the one token, then again
C2_Witness ==
    /\ lexer.input = <<"a", "/", "/">>
    /\ lres.op = "Peek" /\ lres.err = io_EOF /\ nGot = 1
    /\ lexer.buf = NilToken

\* the first position (from 1) at or after i that is outside whitespace and
\* outside // comments, Len(input) + 1 when there is none
RECURSIVE TokenStart(_, _, _)
TokenStart(input, i, inComment) ==
    IF i > Len(input) THEN i
    ELSE IF inComment
    THEN TokenStart(input, i + 1, input[i] \notin {"\n", "\r"})
    ELSE IF unicodeIsSpace(input[i]) THEN TokenStart(input, i + 1, FALSE)
    ELSE IF input[i] = "/" /\ i < Len(input) /\ input[i + 1] = "/"
    THEN TokenStart(input, i + 2, TRUE)
    ELSE i

\* the next token after cursor `from` opens a string that is never closed
OpensUnterminatedString(input, from) ==
    LET j == TokenStart(input, from + 1, FALSE) IN
    /\ j <= Len(input)
    /\ input[j] = "\""
    /\ \A k \in (j + 1)..Len(input) : input[k] # "\""

\* C3: a call that lexes a string literal whose closing quote is missing
\* returns errUnexpectedEOF: not io.EOF, not the invalid-rune error, not a
\* token, whatever runes follow the opening quote.
C3_UnterminatedString ==
    (lres.op \in {"Get", "Peek"} /\ ~lres.buffered
        /\ OpensUnterminatedString(lexer.input, lres.from)) =>
    /\ lres.err = errUnexpectedEOF
    /\ ~ErrorsIs(lres.err, "EOF")
    /\ ~ErrorsIs(lres.err, "invalid rune")
    /\ lres.err # NoErr

\* an opening quote followed by a rune that is invalid outside a string
C3_Witness ==
    /\ lres.op = "Get" /\ lres.err = errUnexpectedEOF
    /\ \E k \in 2..Len(lexer.input) :
           lexer.input[k - 1] = "\"" /\ lexer.input[k] = "$"

\* no case of GetToken takes the rune r
MatchesNoRule(r) ==
    /\ ~unicodeIsSpace(r)
    /\ ~unicodeIsNumber(r)
    /\ ~isLabelRune(r)
    /\ r \notin {"\"", ".", "/"}
    /\ r \notin DOMAIN TokenTypeCharactersMap

\* the last call returned the invalid-rune error
InvalidCharacter == ErrorsIs(lres.err, "invalid rune")

\* C25: a call that finds, with the peek buffer empty, a rune that no token
\* rule takes at the next token position returns the invalid-rune error with
\* that rune and leaves the cursor on it; from then on every GetToken and
\* PeekToken returns that error again, hands out no token, leaves the lexer
\* as it is and never returns io.EOF.
C25_InvalidCharacter ==
    /\ [](LET j == TokenStart(lexer.input, lres.from + 1, FALSE) IN
          ( /\ lres.op \in {"Get", "Peek"}
            /\ ~lres.buffered
            /\ j <= Len(lexer.input)
            /\ MatchesNoRule(lexer.input[j]) ) =>
              /\ lres.err = InvalidRuneError(lexer.input[j])
              /\ lexer.index = j - 1
              /\ lexer.buf = NilToken)
    /\ [](InvalidCharacter =>
              /\ lexer.index < Len(lexer.input)
              /\ MatchesNoRule(lexer.input[lexer.index + 1])
              /\ lres.err = InvalidRuneError(lexer.input[lexer.index + 1])
              /\ lexer.buf = NilToken
              /\ GetToken(lexer).err = lres.err
              /\ PeekToken(lexer).err = lres.err)
    /\ [][InvalidCharacter =>
              /\ lres'.err = lres.err
              /\ lres'.err # io_EOF
              /\ lexer' = lexer
              /\ nGot' = nGot]_vars

\* on `a $(` after the token a: a call returned the invalid-rune error for $
\* from the cursor the call before left on the $, and ( was never handed out
C25_Witness ==
    /\ lexer.input = <<"a", " ", "$", "(">>
    /\ InvalidCharacter
    /\ lres.err = InvalidRuneError("$")
    /\ lres.from = 2
    /\ lexer.index = 2
    /\ nGot = 1

\* C29: after any sequence of GetToken and PeekToken calls the cursor is
\* between 0 and len(input) and no call moves it back; a GetToken that
\* returns a token with the peek buffer empty moves it forward; a PeekToken
\* that fails leaves the peek buffer empty; and the peek buffer is non-empty
\* only after a successful PeekToken, holding its token, until the next
\* GetToken empties it.
C29_CursorInvariant ==
    /\ [](/\ 0 <= lexer.index
          /\ lexer.index <= Len(lexer.input)
          /\ lres.op \in {"Get", "Peek"} => lexer.index >= lres.from
          /\ (lres.op = "Get" /\ lres.err = NoErr /\ ~lres.buffered) =>
                 lexer.index > lres.from
          /\ (lres.op = "Peek" /\ lres.err # NoErr) => lexer.buf = NilToken
          /\ lres.op = "Get" => lexer.buf = NilToken
          /\ lexer.buf # NilToken =>
                 (lres.op = "Peek" /\ lres.err = NoErr /\ lexer.buf = lres.tok))
    /\ [][/\ lexer'.index >= lexer.index
          /\ lexer'.input = lexer.input
          /\ lres'.from = lexer.index
          /\ lres'.buffered = (lexer.buf # NilToken)
          /\ (lexer.buf # NilToken /\ lres'.op = "Peek") => lexer' = lexer
          /\ (lexer.buf # NilToken /\ lres'.op = "Get") =>
                 (lexer'.buf = NilToken /\ lexer'.index = lexer.index)]_vars

\* on `a $(`: a is peeked and taken, and the PeekToken that follows fails on
\* the $ with the buffer left empty
C29_Witness ==
    /\ lexer.input = <<"a", " ", "$", "(">>
    /\ lres.op = "Peek"
    /\ lres.err # NoErr
    /\ lres.from = 1
    /\ lexer.index = 2
    /\ lexer.buf = NilToken
    /\ nGot = 1

\* a GetToken with the buffer empty has returned the second token
C29_WitnessAdvance ==
    /\ lres.op = "Get"
    /\ lres.err = NoErr
    /\ ~lres.buffered
    /\ nGot = 2
    /\ lres.from > 0
    /\ lexer.index > lres.from

\* the text of the runes input[a..b]
RECURSIVE RunesText(_, _, _)
RunesText(input, a, b) ==
    IF a > b THEN "" ELSE input[a] \o RunesText(input, a + 1, b)

\* the last position of the run of digits that starts at i, i - 1 when the
\* rune at i is no digit
RECURSIVE DigitsEnd(_, _)
DigitsEnd(input, i) ==
    IF i <= Len(input) /\ unicodeIsNumber(input[i]) THEN DigitsEnd(input, i + 1)
    ELSE i - 1

\* the last position of the number literal whose first digit is at j: digits,
\* then at most one `.` with the digits after it
NumberEnd(input, j) ==
    LET e == DigitsEnd(input, j) IN
    IF e < Len(input) /\ input[e + 1] = "." THEN DigitsEnd(input, e + 2) ELSE e

\* the tokens of `.5` and of `3.14.15`
TokensOfDotFive == <<Token(TokenType_Period, ""), Token(TokenType_NumberLiteral, "5")>>

TokensOfThreeDots ==
    <<Token(TokenType_NumberLiteral, "3.14"), Token(TokenType_Period, ""),
      Token(TokenType_NumberLiteral, "15")>>

\* C11: a `.` that no digit precedes lexes as a Period token without error and
\* never starts a number literal; a number literal is its digits with at most
\* one `.`, so a second `.` ends it without error and is the next token:
\* `.5` lexes to [Period, NumberLiteral("5")] and `3.14.15` lexes to
\* [NumberLiteral("3.14"), Period, NumberLiteral("15")].
C11_DecimalPoint ==
    LET input == lexer.input
        j == TokenStart(input, lres.from + 1, FALSE)
    IN
    /\ (lres.op \in {"Get", "Peek"} /\ ~lres.buffered /\ j <= Len(input)) =>
           /\ input[j] = "." =>
                  /\ lres.err = NoErr
                  /\ lres.tok = Token(TokenType_Period, "")
                  /\ lexer.index = j
           /\ unicodeIsNumber(input[j]) =>
                  /\ lres.err = NoErr
                  /\ lres.tok = Token(TokenType_NumberLiteral,
                                      RunesText(input, j, NumberEnd(input, j)))
                  /\ lexer.index = NumberEnd(input, j)
    /\ (lres.op = "Get" /\ input = <<".", "5">>) =>
           IF lres.err = NoErr THEN nGot <= 2 /\ lres.tok = TokensOfDotFive[nGot]
           ELSE lres.err = io_EOF /\ nGot = 2
    /\ (lres.op = "Get" /\ input = <<"3", ".", "1", "4", ".", "1", "5">>) =>
           IF lres.err = NoErr THEN nGot <= 3 /\ lres.tok = TokensOfThreeDots[nGot]
           ELSE lres.err = io_EOF /\ nGot = 3

\* GetToken has returned the second `.` of `3.14.15` as a Period
C11_Witness ==
    /\ lexer.input = <<"3", ".", "1", "4", ".", "1", "5">>
    /\ lres.op = "Get" /\ ~lres.buffered /\ lres.from = 4 /\ nGot = 2
    /\ lres.tok = Token(TokenType_Period, "") /\ lres.err = NoErr

----------------------------------------------------------------------------
(* Compile as a state machine: one step per statement compileStmt is       *)
(* called on.  A nested block is entered and left in two steps, the        *)
(* statements between them are its body.  The program is chosen as it is   *)
(* compiled, statement by statement, from the statements of one family.    *)

\* `s = 123` and the other assignments of compiler_test.go, with assignments
\* that fit
StmtsAssign ==
    { StmtVarDeclare("s", String, ExprString("hi")),
      StmtVarDeclare("l", List(String),
                     ExprList(<<ExprString("hello"), ExprString("world")>>)),
      StmtVarDeclare("m", Map(String, Number),
                     ExprTable(<<TablePair(ExprString("hello"), ExprNumber("1"))>>)),
      StmtVarDeclare("s", String, ExprNumber("123")),
      StmtVarAssign("s", ExprNumber("123")),
      StmtVarAssign("s", ExprString("x")),
      StmtVarAssign("s", ExprVariable("l")),
      StmtVarAssign("l", ExprNumber("123")),
      StmtVarAssign("l", ExprList(<<ExprNumber("1"), ExprNumber("2"), ExprNumber("3")>>)),
      StmtVarAssign("l", ExprList(<<ExprString("a")>>)),
      StmtVarAssign("m", ExprTable(<<TablePair(ExprString("something"),
                                               ExprBoolean("false"))>>)),
      StmtVarAssign("m", ExprTable(<<TablePair(ExprString("k"), ExprNumber("2"))>>)),
      StmtCallFunction("print", <<ExprVariable("s")>>) }

\* declarations and uses in nested blocks
StmtsScope ==
    { StmtVarDeclare("x", Number, NilExpr),
      StmtVarDeclare("y", String, ExprString("s")),
      StmtVarAssign("x", ExprNumber("1")),
      StmtVarAssign("y", ExprString("t")),
      StmtVarAssign("y", ExprVariable("x")),
      StmtCallFunction("print", <<ExprVariable("x"), ExprVariable("y")>>) }

\* assignments of one variable to another: `x num`, `z num = 1`, `y str = "s"`,
\* `k map[r:num]`, and `x = z`, `x = x`, `x = y`, `x = q`, `q = x`, `k = k`,
\* `x = k`, `k = 1`
StmtsVars ==
    { StmtVarDeclare("x", Number, NilExpr),
      StmtVarDeclare("z", Number, ExprNumber("1")),
      StmtVarDeclare("y", String, ExprString("s")),
      StmtVarDeclare("k", Map(Custom("r"), Number), NilExpr),
      StmtVarAssign("x", ExprVariable("z")),
      StmtVarAssign("x", ExprVariable("x")),
      StmtVarAssign("x", ExprVariable("y")),
      StmtVarAssign("x", ExprVariable("q")),
      StmtVarAssign("q", ExprVariable("x")),
      StmtVarAssign("k", ExprVariable("k")),
      StmtVarAssign("x", ExprVariable("k")),
      StmtVarAssign("k", ExprNumber("1")) }

\* object definitions and uses of object types: `a obj { x num }`,
\* `a obj { q str }`, `b obj { z str }`, `w b`, `u c`, `t c = {}`, `p c = 1`,
\* `t = {}`; no statement defines c
StmtsObjects ==
    { StmtObjDefine("a", <<FieldTypePair("x", Number)>>),
      StmtObjDefine("a", <<FieldTypePair("q", String)>>),
      StmtObjDefine("b", <<FieldTypePair("z", String)>>),
      StmtVarDeclare("w", Custom("b"), NilExpr),
      StmtVarDeclare("u", Custom("c"), NilExpr),
      StmtVarDeclare("t", Custom("c"), ExprTable(<<>>)),
      StmtVarDeclare("p", Custom("c"), ExprNumber("1")),
      StmtVarAssign("t", ExprTable(<<>>)) }

\* the expressions that are indexed: a list, a map and an object variable, a
\* name that is not declared, a property access and an index expression
IndexedExprs ==
    { ExprVariable("l"), ExprVariable("m"), ExprVariable("v"), ExprVariable("q"),
      ExprPropertyAccess(ExprVariable("v"), "x"),
      ExprIndex(ExprVariable("l"), ExprNumber("0")) }

\* `l list[num]`, `m map[str:num]`, `a obj { x list[num] }`, `v a`, and
\* `print(e[1])` for the indexed expressions e, `print(l[i])`
StmtsIndex ==
    { StmtVarDeclare("l", List(Number), NilExpr),
      StmtVarDeclare("m", Map(String, Number), NilExpr),
      StmtObjDefine("a", <<FieldTypePair("x", List(Number))>>),
      StmtVarDeclare("v", Custom("a"), NilExpr),
      StmtCallFunction("print", <<ExprIndex(ExprVariable("l"), ExprVariable("i"))>>) }
    \cup {StmtCallFunction("print", <<ExprIndex(left, ExprNumber("1"))>>) :
              left \in IndexedExprs}

\* declarations without initializer, of every kind of type
StmtsZero ==
    { StmtObjDefine("a", <<FieldTypePair("x", Number), FieldTypePair("y", Custom("b"))>>),
      StmtObjDefine("b", <<FieldTypePair("z", String), FieldTypePair("f", Boolean),
                           FieldTypePair("g", List(Custom("a")))>>),
      StmtObjDefine("r", <<FieldTypePair("n", Number), FieldTypePair("next", Custom("r"))>>),
      StmtVarDeclare("v", Custom("a"), NilExpr),
      StmtVarDeclare("w", Custom("b"), NilExpr),
      StmtVarDeclare("u", Custom("r"), NilExpr),
      StmtVarDeclare("n", Number, NilExpr),
      StmtVarDeclare("s", String, NilExpr),
      StmtVarDeclare("t", Boolean, NilExpr),
      StmtVarDeclare("l", List(Number), NilExpr),
      StmtVarDeclare("m", Map(String, Number), NilExpr),
      StmtVarAssign("n", ExprNumber("7")) }

\* table literals for variables of object type
TableLiterals ==
    { ExprTable(<<>>),
      ExprTable(<<TablePair(ExprVariable("x"), ExprNumber("1"))>>),
      ExprTable(<<TablePair(ExprVariable("y"),
                            ExprTable(<<TablePair(ExprVariable("f"), ExprBoolean("true"))>>)),
                  TablePair(ExprVariable("x"), ExprNumber("2"))>>),
      ExprTable(<<TablePair(ExprVariable("y"),
                            ExprTable(<<TablePair(ExprVariable("z"), ExprString("s"))>>))>>),
      ExprTable(<<TablePair(ExprVariable("x"), ExprNumber("1")),
                  TablePair(ExprVariable("x"), ExprNumber("2"))>>),
      ExprTable(<<TablePair(ExprVariable("k"), ExprNumber("1"))>>),
      ExprTable(<<TablePair(ExprString("x"), ExprNumber("1"))>>) }

StmtsTable ==
    { StmtObjDefine("a", <<FieldTypePair("x", Number), FieldTypePair("y", Custom("b"))>>),
      StmtObjDefine("b", <<FieldTypePair("z", String), FieldTypePair("f", Boolean)>>),
      StmtVarDeclare("w", Custom("b"), ExprTable(<<>>)),
      StmtVarDeclare("w", Custom("b"),
                     ExprTable(<<TablePair(ExprVariable("f"), ExprBoolean("true"))>>)),
      StmtVarAssign("w", ExprTable(<<>>)),
      StmtVarAssign("w", ExprTable(<<TablePair(ExprVariable("z"), ExprString("s"))>>)),
      StmtVarAssign("w", ExprTable(<<TablePair(ExprVariable("f"), ExprBoolean("true")),
                                     TablePair(ExprVariable("z"), ExprString("t"))>>)),
      StmtVarAssign("w", ExprTable(<<TablePair(ExprVariable("k"), ExprNumber("1"))>>)),
      StmtVarAssign("v", ExprTable(<<TablePair(ExprVariable("x"), ExprNumber("5"))>>)),
      StmtVarAssign("v", ExprTable(<<TablePair(ExprVariable("y"), ExprTable(<<>>))>>)) }
    \cup {StmtVarDeclare("v", Custom("a"), e) : e \in TableLiterals}

\* `1 + 2` as the parser builds it
OnePlusTwo == ExprBinary(ExprNumber("1"), TokenType_Plus, ExprNumber("2"))

\* `x num`, `k map[r:num]`, `l list[num]`, `a obj { x num }`, `v a`, and `1 + 2`
\* as a call argument, an initializer, a list element, a table value, an
\* index, the value of a field of an object and of a name that is no field,
\* and as the right-hand side of assignments to x, k, l, v and to q, which
\* is not declared
StmtsBinary ==
    { StmtVarDeclare("x", Number, NilExpr),
      StmtVarDeclare("k", Map(Custom("r"), Number), NilExpr),
      StmtVarDeclare("l", List(Number), NilExpr),
      StmtObjDefine("a", <<FieldTypePair("x", Number)>>),
      StmtVarDeclare("v", Custom("a"), NilExpr),
      StmtCallFunction("print", <<ExprVariable("x")>>),
      StmtCallFunction("print", <<OnePlusTwo>>),
      StmtCallFunction("print", <<ExprList(<<ExprNumber("1"), OnePlusTwo>>)>>),
      StmtCallFunction("print", <<ExprTable(<<TablePair(ExprString("s"), OnePlusTwo)>>)>>),
      StmtCallFunction("print", <<ExprIndex(ExprVariable("l"), OnePlusTwo)>>),
      StmtVarDeclare("y", Number, OnePlusTwo),
      StmtVarDeclare("w", Custom("a"), ExprTable(<<TablePair(ExprVariable("x"), OnePlusTwo)>>)),
      StmtVarDeclare("u", Custom("a"), ExprTable(<<TablePair(ExprVariable("q"), OnePlusTwo)>>)),
      StmtVarAssign("x", OnePlusTwo),
      StmtVarAssign("k", OnePlusTwo),
      StmtVarAssign("l", OnePlusTwo),
      StmtVarAssign("v", OnePlusTwo),
      StmtVarAssign("q", OnePlusTwo) }

Scenarios == {"assign", "scope", "vars", "objects", "index", "zero", "table", "binary"}

Stmts(family) ==
    CASE family = "assign" -> StmtsAssign
      [] family = "scope" -> StmtsScope
      [] family = "vars" -> StmtsVars
      [] family = "objects" -> StmtsObjects
      [] family = "index" -> StmtsIndex
      [] family = "zero" -> StmtsZero
      [] family = "table" -> StmtsTable
      [] family = "binary" -> StmtsBinary

StmtsOfKind(kind) == {stmt \in Stmts(scn) : stmt.k = kind}

\* no lexer is in use
LexIdle ==
    /\ lexer = NewLexer(<<>>)
    /\ lres = NewCallRecord
    /\ nGot = 0

\* Compile has built its compiler and is about to call compileStmt on the root
InitCompile ==
    /\ scn \in Scenarios
    /\ comp = NewCompiler
    /\ cpc = "run"
    /\ lua = ""
    /\ cerr = NoErr
    /\ nStmts = 0
    /\ clast = [op |-> "none"]
    /\ declared = <<>>
    /\ LexIdle
    /\ ParIdle

variablesToRemove_None(cc) == {}

\* a block end that removes the variables of every depth
variablesToRemove_All(cc) == DOMAIN cc.variables

\* the variables compileStmtBlock removes when the block ends
variablesToRemove(cc) == {name \in DOMAIN cc.variables : cc.variables[name].scope = cc.scope}

\* the end of compileStmtBlock, after the loop over the statements
leaveStmtBlock(cc) ==
    LET keep == DOMAIN cc.variables \ variablesToRemove(cc) IN
    [cc EXCEPT !.variables = [name \in keep |-> cc.variables[name]],
               !.scope = @ - 1]

\* the error of a statement on its way up through the blocks around it: the
\* loop of compileStmtBlock and the StmtBlock case of compileStmt, per block
RECURSIVE BlockFrames(_, _)
BlockFrames(err, scope) ==
    IF scope = 0 THEN err
    ELSE BlockFrames(WrapErr("failed to compile statement block",
                             WrapErr("failed to compile stmt", err)), scope - 1)

\* what Compile returns as lua
CompileLua_Partial(sb, err) == sb

CompileLua(sb, err) == IF err # NoErr THEN "" ELSE sb

\* what Compile returns as err
CompileErr(err) == IF err # NoErr THEN WrapErr("failed to compile statement", err) ELSE NoErr

\* Compile returns, or the process dies
CompileReturns(cc, err) ==
    /\ comp' = cc
    /\ cpc' = IF Dies(err) THEN "crashed" ELSE IF err # NoErr THEN "failed" ELSE "done"
    /\ lua' = IF Dies(err) THEN "" ELSE CompileLua(cc.sb, err)
    /\ cerr' = CompileErr(err)

\* compileStmtBlock is called on a block: the root, or a nested one
EnterBlock ==
    /\ cpc = "run"
    /\ comp.scope < MaxDepth
    /\ comp.scope = 0 \/ nStmts < MaxStmts
    /\ comp' = [comp EXCEPT !.scope = @ + 1]
    /\ nStmts' = IF comp.scope = 0 THEN nStmts ELSE nStmts + 1
    /\ clast' = [op |-> "enter", before |-> comp]
    /\ declared' = Append(declared, <<>>)
    /\ UNCHANGED <<cpc, lua, cerr, scn>>
    /\ UNCHANGED lexVars
    /\ UNCHANGED parVars

\* the statements of the innermost block are over
ExitBlock ==
    /\ cpc = "run"
    /\ comp.scope >= 1
    /\ clast' = [op |-> "exit", before |-> comp]
    /\ declared' = SubSeq(declared, 1, Len(declared) - 1)
    /\ With(leaveStmtBlock(comp), LAMBDA left :
       IF left.scope = 0
       THEN CompileReturns(left, NoErr)
       ELSE /\ comp' = WriteString(left, "\n")
            /\ UNCHANGED <<cpc, lua, cerr>>)
    /\ UNCHANGED <<nStmts, scn>>
    /\ UNCHANGED lexVars
    /\ UNCHANGED parVars

\* one iteration of the loop of compileStmtBlock on a statement that is not
\* a block
StepStmt(stmt) ==
    With(compileStmt(comp, stmt), LAMBDA r :
    /\ cpc = "run"
    /\ comp.scope >= 1
    /\ nStmts < MaxStmts
    /\ nStmts' = nStmts + 1
    /\ clast' = [op |-> stmt.k, stmt |-> stmt, before |-> comp]
    /\ IF r.err = NoErr
       THEN /\ comp' = WriteString(r.c, "\n")
            /\ UNCHANGED <<cpc, lua, cerr>>
       ELSE CompileReturns(r.c, BlockFrames(r.err, comp.scope))
    /\ declared' = IF r.err = NoErr /\ stmt.k = "StmtVarDeclare"
                   THEN [declared EXCEPT ![Len(declared)] =
                            (stmt.VariableName :> stmt.DataType) @@ @]
                   ELSE declared
    /\ UNCHANGED scn
    /\ UNCHANGED lexVars
    /\ UNCHANGED parVars)

CompileCallFunction == \E stmt \in StmtsOfKind("StmtCallFunction") : StepStmt(stmt)

CompileVarDeclare == \E stmt \in StmtsOfKind("StmtVarDeclare") : StepStmt(stmt)

CompileVarAssign == \E stmt \in StmtsOfKind("StmtVarAssign") : StepStmt(stmt)

CompileObjDefine == \E stmt \in StmtsOfKind("StmtObjDefine") : StepStmt(stmt)

NextCompile ==
    \/ EnterBlock
    \/ ExitBlock
    \/ CompileCallFunction
    \/ CompileVarDeclare
    \/ CompileVarAssign
    \/ CompileObjDefine

SpecCompile == InitCompile /\ [][NextCompile]_vars

----------------------------------------------------------------------------
(* Claims about the compiler.                                              *)

\* the last step compiled this statement kind
LastStmt(kind) == clast.op = kind

\* compileExpr on expr comes to call compileExpr on a Binary expression,
\* unless it returns before
RECURSIVE EmitsBinary(_)
EmitsBinary(expr) ==
    CASE expr.k = "ExprBinary" -> TRUE
      [] expr.k = "ExprBlock" -> EmitsBinary(expr.Value)
      [] expr.k = "ExprList" ->
            \E i \in DOMAIN expr.Values : EmitsBinary(expr.Values[i])
      [] expr.k = "ExprTable" ->
            \E i \in DOMAIN expr.Pairs : EmitsBinary(expr.Pairs[i].Value)
      [] expr.k = "ExprIndex" -> EmitsBinary(expr.Left) \/ EmitsBinary(expr.Index)
      [] expr.k = "ExprPropertyAccess" -> EmitsBinary(expr.Left)
      [] OTHER -> FALSE

\* the same for compileExprTableWithZeroValues, which emits the values given
\* for the fields of the object and no other
RECURSIVE EmitsBinaryAsField(_, _, _)
EmitsBinaryAsField(c, expr, objectType) ==
    \E i \in DOMAIN c.objects[objectType.Name] :
        LET field == c.objects[objectType.Name][i]
            value == ProvidedField(expr.Pairs, field.Field, Len(expr.Pairs)) IN
        /\ IsProvided(expr.Pairs, field.Field)
        /\ IF /\ value.k = "ExprTable"
              /\ field.Type.k = "Custom"
              /\ field.Type.Name \in DOMAIN c.objects
           THEN EmitsBinaryAsField(c, value, field.Type)
           ELSE EmitsBinary(value)

\* the last statement compiled had a Binary expression among the
\* expressions it emits
BinaryEmitted ==
    \/ /\ LastStmt("StmtCallFunction")
       /\ \E i \in DOMAIN clast.stmt.Args : EmitsBinary(clast.stmt.Args[i])
    \/ /\ LastStmt("StmtVarDeclare")
       /\ ~alreadyExists(clast.before, clast.stmt.VariableName)
       /\ clast.stmt.Expr # NilExpr
       /\ IF IsObjectTable(clast.before, clast.stmt.DataType, clast.stmt.Expr)
          THEN EmitsBinaryAsField(clast.before, clast.stmt.Expr, clast.stmt.DataType)
          ELSE EmitsBinary(clast.stmt.Expr)

\* the variables declared in the blocks that are open, with their types
OpenNames == UNION {DOMAIN declared[i] : i \in DOMAIN declared}
OpenType(name) ==
    LET i == CHOOSE j \in DOMAIN declared : name \in DOMAIN declared[j] IN declared[i][name]

\* the literal e has the shape of type t (primitive, list and map types)
RECURSIVE ShapeFits(_, _)
ShapeFits(t, e) ==
    CASE t.k = "Number" -> e.k = "ExprNumber"
      [] t.k = "String" -> e.k = "ExprString"
      [] t.k = "Boolean" -> e.k = "ExprBoolean"
      [] t.k = "List" ->
            /\ e.k = "ExprList"
            /\ \A i \in DOMAIN e.Values : ShapeFits(t.ListType, e.Values[i])
      [] t.k = "Map" ->
            /\ e.k = "ExprTable"
            /\ \A i \in DOMAIN e.Pairs :
                   /\ ShapeFits(t.KeyType, e.Pairs[i].Key)
                   /\ ShapeFits(t.ValueType, e.Pairs[i].Value)

\* err ends with the messages of inner
EndsWith(err, inner) ==
    /\ Len(err.msg) >= Len(inner)
    /\ SubSeq(err.msg, Len(err.msg) - Len(inner) + 1, Len(err.msg)) = inner

\* the contexts Compile's error carries for a statement that failed in a
\* block at depth scope, outermost first
RECURSIVE FrameContexts(_)
FrameContexts(scope) ==
    IF scope = 0 THEN <<>>
    ELSE <<"failed to compile statement block", "failed to compile stmt">>
         \o FrameContexts(scope - 1)

\* an assignment of a non-variable expression to a declared variable of
\* primitive, list or map type that the expression does not fit
MismatchedAssign ==
    /\ LastStmt("StmtVarAssign")
    /\ clast.stmt.Expr.k # "ExprVariable"
    /\ clast.stmt.VariableName \in OpenNames
    /\ OpenType(clast.stmt.VariableName).k # "Custom"
    /\ ~ShapeFits(OpenType(clast.stmt.VariableName), clast.stmt.Expr)

\* C4: when a declared variable is assigned a non-variable expression whose
\* shape does not match its declared type, the declaration before it has
\* compiled (its text is emitted and the variable is in the symbol table),
\* and Compile fails with an error that errors.Is still identifies as
\* ErrInvalidTypeAssign under the context of every call frame up to Compile.
C4_InvalidTypeAssign ==
    MismatchedAssign =>
        /\ clast.stmt.VariableName \in DOMAIN clast.before.variables
        /\ clast.before.sb # ""
        /\ cpc = "failed"
        /\ \A sentinel \in ErrInvalidTypeAssign.is : ErrorsIs(cerr, sentinel)
        /\ SubSeq(cerr.msg, 1, 2 * clast.before.scope + 3)
             = <<"failed to compile statement">> \o FrameContexts(clast.before.scope)
                \o <<"failed to compile statement assign", "invalid type assign">>

\* `l list[str] = ["hello", "world"]` in the root block, then `l = [1, 2, 3]`
\* in a nested block
C4_Witness ==
    /\ MismatchedAssign
    /\ clast.stmt = StmtVarAssign("l", ExprList(<<ExprNumber("1"), ExprNumber("2"),
                                                  ExprNumber("3")>>))
    /\ clast.before.scope = 2
    /\ cpc = "failed"

\* `k = 1` for k of type map[r:num]: the process has died in the rendering
\* of the type for the error
C4_AssignPanics ==
    /\ MismatchedAssign
    /\ clast.stmt = StmtVarAssign("k", ExprNumber("1"))
    /\ cpc = "crashed"

\* C5: a variable declared directly in a nested block is in the symbol table,
\* and can be assigned, while that block's statements are compiling; once the
\* block is over its entry is gone and an assignment to the name fails with
\* "variable does not exist".  Variables of the enclosing blocks stay, with
\* their type.
C5_BlockScope ==
    /\ cpc = "run" =>
           /\ DOMAIN comp.variables = OpenNames
           /\ \A name \in OpenNames :
                  /\ comp.variables[name].dataType = OpenType(name)
                  /\ name \in DOMAIN declared[comp.variables[name].scope]
    /\ LastStmt("StmtVarAssign") =>
           /\ clast.stmt.VariableName \notin OpenNames =>
                  /\ cpc = "failed"
                  /\ EndsWith(cerr, <<"variable %q does not exist",
                                      clast.stmt.VariableName>>)
           /\ ( /\ clast.stmt.VariableName \in OpenNames
                /\ clast.stmt.Expr.k # "ExprVariable"
                /\ OpenType(clast.stmt.VariableName).k # "Custom"
                /\ ShapeFits(OpenType(clast.stmt.VariableName), clast.stmt.Expr) ) =>
                  /\ cpc = "run"
                  /\ comp.variables = clast.before.variables

\* a block declares x, the block ends, and the enclosing block assigns x
C5_Witness ==
    /\ scn = "scope"
    /\ clast.op = "StmtVarAssign"
    /\ clast.stmt = StmtVarAssign("x", ExprNumber("1"))
    /\ clast.before.sb = "local x = 0" \o "\n" \o "\n"
    /\ clast.before.scope = 1
    /\ cpc = "failed"

\* s joined with commas
RECURSIVE JoinComma(_)
JoinComma(texts) ==
    IF Len(texts) = 0 THEN ""
    ELSE IF Len(texts) = 1 THEN texts[1]
    ELSE texts[1] \o "," \o JoinComma(Tail(texts))

\* the zero value of a type as Lua text, given the registered objects
RECURSIVE ExpectedZero(_, _)
ExpectedZero(t, objects) ==
    CASE t.k = "Number" -> "0"
      [] t.k = "String" -> "\"\""
      [] t.k = "Boolean" -> "false"
      [] t.k = "List" -> "[]"
      [] t.k = "Map" -> "{}"
      [] t.k = "Custom" ->
            LET fields == objects[t.Name] IN
            "{" \o JoinComma([i \in DOMAIN fields |->
                                 "\"" \o fields[i].Field \o "\":"
                                   \o ExpectedZero(fields[i].Type, objects)])
                \o "}"

\* the type has a finite zero value: the objects it reaches are registered
\* and none contains itself
RECURSIVE HasZeroValue(_, _, _)
HasZeroValue(t, objects, inside) ==
    t.k = "Custom" =>
        /\ t.Name \in DOMAIN objects
        /\ t.Name \notin inside
        /\ \A i \in DOMAIN objects[t.Name] :
               HasZeroValue(objects[t.Name][i].Type, objects, inside \cup {t.Name})

\* what a declaration or assignment writes before the value
Assignee(before, name, declares) ==
    (IF declares /\ before.scope # 1 THEN "local " ELSE "") \o name \o " = "

\* C6: for a declaration without initializer the text emitted after
\* `name = ` is the zero value of the declared type: 0, "", false, [] and {}
\* for number, string, boolean, list and map, and for a registered object the
\* table of all its fields in definition order, each with the zero value of
\* its own type, recursively.
C6_ZeroValue ==
    (LastStmt("StmtVarDeclare") /\ clast.stmt.Expr = NilExpr) =>
        /\ ( /\ clast.stmt.VariableName \notin DOMAIN clast.before.variables
             /\ HasZeroValue(clast.stmt.DataType, clast.before.objects, {}) ) => cpc = "run"
        /\ cpc = "run" =>
               comp.sb = clast.before.sb
                           \o Assignee(clast.before, clast.stmt.VariableName, TRUE)
                           \o ExpectedZero(clast.stmt.DataType, clast.before.objects)
                           \o "\n"

\* `v a` where a has a field of object type b, and b a list field
C6_Witness ==
    /\ LastStmt("StmtVarDeclare")
    /\ clast.stmt = StmtVarDeclare("v", Custom("a"), NilExpr)
    /\ {"a", "b"} \subseteq DOMAIN clast.before.objects
    /\ cpc = "run"
    /\ comp.sb = "\n" \o "\n"
                   \o "v = {\"x\":0,\"y\":{\"z\":\"\",\"f\":false,\"g\":[]}}" \o "\n"

\* the text of an expression compiled on its own
ValueText(before, e) == compileExpr([before EXCEPT !.sb = ""], e).c.sb

\* the table emitted for the literal e of a variable whose type is the
\* registered object `name`: every field of the object, in definition order,
\* with the value the literal gives it (its last one, when the literal names
\* the field twice) or else its zero value
RECURSIVE ExpectedFill(_, _, _)
ExpectedFill(e, name, before) ==
    LET fields == before.objects[name]
        Given(f) == {i \in DOMAIN e.Pairs : e.Pairs[i].Key = ExprVariable(f)}
        Value(f) == e.Pairs[CHOOSE i \in Given(f) : \A j \in Given(f) : j <= i].Value
        FieldText(fld) ==
            IF Given(fld.Field) = {} THEN ExpectedZero(fld.Type, before.objects)
            ELSE IF /\ Value(fld.Field).k = "ExprTable"
                    /\ fld.Type.k = "Custom"
                    /\ fld.Type.Name \in DOMAIN before.objects
            THEN ExpectedFill(Value(fld.Field), fld.Type.Name, before)
            ELSE ValueText(before, Value(fld.Field))
    IN "{" \o JoinComma([i \in DOMAIN fields |->
                            "\"" \o fields[i].Field \o "\":" \o FieldText(fields[i])])
           \o "}"

\* the last step was a declaration or an assignment of a table literal for a
\* variable whose type is a registered object
FillDeclare ==
    /\ LastStmt("StmtVarDeclare")
    /\ clast.stmt.Expr.k = "ExprTable"
    /\ clast.stmt.DataType.k = "Custom"
    /\ clast.stmt.DataType.Name \in DOMAIN clast.before.objects

FillAssign ==
    /\ LastStmt("StmtVarAssign")
    /\ clast.stmt.Expr.k = "ExprTable"
    /\ clast.stmt.VariableName \in DOMAIN clast.before.variables
    /\ clast.before.variables[clast.stmt.VariableName].dataType.k = "Custom"
    /\ clast.before.variables[clast.stmt.VariableName].dataType.Name
           \in DOMAIN clast.before.objects

\* C7: a table literal that initializes or is assigned to a variable whose
\* type names a registered object is emitted as a table of exactly the
\* object's declared fields, each once and in definition order, whatever keys
\* the literal has: a field the literal gives keeps the literal's value
\* (filled the same way when it is a table for a field of registered object
\* type), a field it does not give gets its zero value.
C7_TableZeroFill ==
    /\ (FillDeclare /\ cpc = "run") =>
           comp.sb = clast.before.sb
                       \o Assignee(clast.before, clast.stmt.VariableName, TRUE)
                       \o ExpectedFill(clast.stmt.Expr, clast.stmt.DataType.Name, clast.before)
                       \o "\n"
    /\ ( /\ FillDeclare
         /\ clast.stmt.VariableName \notin DOMAIN clast.before.variables
         /\ ~BinaryEmitted
         /\ HasZeroValue(clast.stmt.DataType, clast.before.objects, {}) ) => cpc = "run"
    /\ (FillAssign /\ cpc = "run") =>
           comp.sb = clast.before.sb
                       \o Assignee(clast.before, clast.stmt.VariableName, FALSE)
                       \o ExpectedFill(clast.stmt.Expr,
                                       clast.before.variables[clast.stmt.VariableName]
                                           .dataType.Name,
                                       clast.before)
                       \o "\n"

\* `v a = {y: {f: true}, x: 2}` with a = {x num, y b} and b = {z str, f bool}
C7_Witness ==
    /\ FillDeclare
    /\ clast.stmt.Expr =
           ExprTable(<<TablePair(ExprVariable("y"),
                                 ExprTable(<<TablePair(ExprVariable("f"),
                                                       ExprBoolean("true"))>>)),
                       TablePair(ExprVariable("x"), ExprNumber("2"))>>)
    /\ cpc = "run"
    /\ comp.sb = "\n" \o "\n"
                   \o "v = {\"x\":2,\"y\":{\"z\":\"\",\"f\":true}}" \o "\n"

\* `w = {z: "s"}` for w of object type b
C7_WitnessAssign ==
    /\ FillAssign
    /\ clast.stmt = StmtVarAssign("w", ExprTable(<<TablePair(ExprVariable("z"),
                                                             ExprString("s"))>>))
    /\ cpc = "run"

\* C9: Compile terminates on every finite AST and returns text or an error,
\* also when it emits the zero value of an object type that has a field of
\* its own type, directly or through other object types.
C9_CompileReturns == cpc \in {"run", "done", "failed"}

\* `r obj { n num next r }` then `u r`: compileObjectZeroValue calls itself
\* on r without end
C9_SelfReference ==
    /\ cpc = "crashed"
    /\ clast.stmt = StmtVarDeclare("u", Custom("r"), NilExpr)
    /\ "r" \in DOMAIN clast.before.objects

\* C10: when a statement fails to compile, Compile returns that error and an
\* empty string, not the text emitted so far, and nothing is compiled after
\* the failing statement: the symbol table, the objects and the emitted text
\* stay as the failing statement left them.
C10_FailFast ==
    /\ [](cpc = "failed" =>
            LET r == compileStmt(clast.before, clast.stmt) IN
            /\ lua = ""
            /\ cerr # NoErr
            /\ cerr.is = r.err.is
            /\ EndsWith(cerr, r.err.msg)
            /\ comp = r.c)
    /\ [][cpc = "failed" => UNCHANGED <<comp, lua, cerr, nStmts, cpc>>]_vars

\* the third statement fails after two that emitted text
C10_Witness ==
    /\ cpc = "failed"
    /\ nStmts = 3
    /\ clast.before.sb # ""
    /\ DOMAIN clast.before.variables # {}
    /\ lua = ""

\* Compile has failed with the redeclaration error for name
RedeclarationError(name) ==
    /\ cpc = "failed"
    /\ EndsWith(cerr, <<"variable %q already exists", name>>)

\* C17: a variable declaration fails with the redeclaration error exactly when
\* the name already has an entry in the symbol table, and then leaves the
\* symbol table, with the entry's scope depth and declared type, as it was;
\* the table holds the names of all blocks that are open, so a name declared
\* in an enclosing block is rejected in an inner block, and a name whose
\* block has finished is not in the table and can be declared again.
C17_Redeclaration ==
    LastStmt("StmtVarDeclare") =>
        LET name == clast.stmt.VariableName
            before == clast.before
        IN /\ RedeclarationError(name) <=> name \in DOMAIN before.variables
           /\ RedeclarationError(name) =>
                  /\ comp.variables = before.variables
                  /\ comp.variables[name] = before.variables[name]
                  /\ name \in OpenNames
           /\ name \notin DOMAIN before.variables =>
                  /\ name \in DOMAIN comp.variables
                  /\ comp.variables[name] =
                         [scope |-> before.scope, dataType |-> clast.stmt.DataType]
                  /\ cpc = "run" => name \in DOMAIN declared[Len(declared)]

\* a declaration in an inner block of a name declared in the root block has
\* failed
C17_Witness ==
    /\ LastStmt("StmtVarDeclare")
    /\ RedeclarationError(clast.stmt.VariableName)
    /\ Len(declared) = 2
    /\ clast.stmt.VariableName \in DOMAIN declared[1]
    /\ clast.before.variables[clast.stmt.VariableName].scope = 1
    /\ clast.before.scope = 2

\* x was declared in a nested block, the block has finished, and x has been
\* declared again in the root block
C17_WitnessAgain ==
    /\ LastStmt("StmtVarDeclare")
    /\ cpc = "run"
    /\ comp.sb = "local x = 0" \o "\n" \o "\n" \o "x = 0" \o "\n"

\* the last step compiled an assignment whose right-hand side is a bare
\* variable reference
VariableAssign ==
    /\ LastStmt("StmtVarAssign")
    /\ clast.stmt.Expr.k = "ExprVariable"

\* both names of the assignment were in the symbol table
BothDeclared ==
    /\ clast.stmt.VariableName \in DOMAIN clast.before.variables
    /\ clast.stmt.Expr.Name \in DOMAIN clast.before.variables

\* the declared types t and u have the same display string: they are the
\* same type, or String() returns the same text for both
SameDisplayString(t, u) ==
    \/ t = u
    \/ /\ ~TypeStringPanics(t)
       /\ ~TypeStringPanics(u)
       /\ TypeString(t) = TypeString(u)

\* Compile has failed with `variable %q does not exist` for name
UndeclaredError(name) ==
    /\ cpc = "failed"
    /\ EndsWith(cerr, <<"variable %q does not exist", name>>)

\* C18: an assignment whose right-hand side is a bare variable reference
\* succeeds if and only if the target and the source are in the symbol table
\* and the display strings of their declared types are equal; with a name
\* absent Compile fails with the undeclared-variable error, with different
\* display strings it fails with ErrInvalidTypeAssign, and in every other
\* outcome than success nothing is emitted and the symbol table is unchanged.
C18_VariableAssign ==
    VariableAssign =>
        LET target == clast.stmt.VariableName
            source == clast.stmt.Expr.Name
            before == clast.before
            same == /\ BothDeclared
                    /\ SameDisplayString(before.variables[target].dataType,
                                         before.variables[source].dataType)
        IN /\ cpc = "run" <=> same
           /\ cpc = "run" =>
                  comp.sb = before.sb \o target \o " = " \o source \o "\n"
           /\ target \notin DOMAIN before.variables => UndeclaredError(target)
           /\ ( /\ target \in DOMAIN before.variables
                /\ source \notin DOMAIN before.variables ) => UndeclaredError(source)
           /\ (BothDeclared /\ ~same) =>
                  /\ cpc = "failed"
                  /\ \A sentinel \in ErrInvalidTypeAssign.is : ErrorsIs(cerr, sentinel)
           /\ cpc # "run" =>
                  /\ comp.sb = before.sb
                  /\ comp.variables = before.variables

\* `k map[r:num]` was declared and `k = k` has ended the process in
\* Map.String(), with no error returned
C18_DisplayStringPanics ==
    /\ VariableAssign
    /\ clast.stmt = StmtVarAssign("k", ExprVariable("k"))
    /\ BothDeclared
    /\ cpc = "crashed"

\* C21: the object registry only grows during a compilation.  Every step keeps
\* each registered object with its field list, the end of a block included;
\* an object definition of a new name registers the name with the ordered
\* field list and writes no text of its own (the block writes the line feed
\* after the statement); a definition of a registered name fails with the
\* "already exists" error and leaves the registry as it was.
C21_RegistryGrows ==
    /\ clast.op # "none" =>
           \A name \in DOMAIN clast.before.objects :
               /\ name \in DOMAIN comp.objects
               /\ comp.objects[name] = clast.before.objects[name]
    /\ LastStmt("StmtObjDefine") =>
           LET name == clast.stmt.Name
               before == clast.before
           IN IF name \in DOMAIN before.objects
              THEN /\ cpc = "failed"
                   /\ EndsWith(cerr, <<"object definition %q already exists", name>>)
                   /\ comp = before
              ELSE /\ cpc = "run"
                   /\ DOMAIN comp.objects = DOMAIN before.objects \cup {name}
                   /\ comp.objects[name] = clast.stmt.Fields
                   /\ comp = [before EXCEPT !.objects = comp.objects,
                                            !.sb = @ \o "\n"]

\* a nested block in which `w b` compiled has finished: w is gone from the
\* symbol table and the object b is still registered
C21_Witness ==
    /\ clast.op = "exit"
    /\ clast.before.scope = 2
    /\ "w" \in DOMAIN clast.before.variables
    /\ clast.before.variables["w"] = [scope |-> 2, dataType |-> Custom("b")]
    /\ "w" \notin DOMAIN comp.variables
    /\ comp.scope = 1
    /\ "b" \in DOMAIN comp.objects
    /\ comp.objects["b"] = <<FieldTypePair("z", String)>>

\* `a obj { q str }` has been rejected after `a obj { x num }`
C21_WitnessRedefined ==
    /\ LastStmt("StmtObjDefine")
    /\ clast.stmt.Fields = <<FieldTypePair("q", String)>>
    /\ cpc = "failed"
    /\ comp.objects["a"] = <<FieldTypePair("x", Number)>>

\* the last step compiled a call whose only argument is an index expression
IndexCall ==
    /\ LastStmt("StmtCallFunction")
    /\ Len(clast.stmt.Args) = 1
    /\ clast.stmt.Args[1].k = "ExprIndex"

\* left is a bare variable that is in the symbol table with a List type
IndexesList(left) ==
    /\ left.k = "ExprVariable"
    /\ left.Name \in DOMAIN clast.before.variables
    /\ clast.before.variables[left.Name].dataType.k = "List"

\* the text `left[index]` of an index expression over variables, property
\* accesses and index expressions, 1 added to the index of a list variable
RECURSIVE IndexText(_)
IndexText(e) ==
    CASE e.k = "ExprIndex" ->
            IndexText(e.Left) \o "["
            \o (IF IndexesList(e.Left) THEN "(" \o IndexText(e.Index) \o " + 1)"
                ELSE IndexText(e.Index))
            \o "]"
      [] e.k = "ExprPropertyAccess" -> IndexText(e.Left) \o "." \o e.Property
      [] e.k = "ExprVariable" -> e.Name
      [] e.k = "ExprNumber" -> e.Value

\* C22: an index expression is emitted as left[index]; 1 is added to the
\* emitted index exactly when the indexed expression is a bare variable that
\* is in the symbol table with a declared List type, and the index is emitted
\* as it is for a map or object variable, a name that is not in the symbol
\* table, a property access and an index expression.
C22_IndexAdjustment ==
    (IndexCall /\ ~BinaryEmitted) =>
        /\ cpc = "run"
        /\ comp.sb = clast.before.sb \o clast.stmt.FunctionName \o "("
                        \o IndexText(clast.stmt.Args[1]) \o ")" \o "\n"
        /\ DOMAIN clast.before.variables = OpenNames
        /\ \A name \in OpenNames :
               clast.before.variables[name].dataType = OpenType(name)

\* `print(l[1])` in a block that declared `l list[num]` is emitted with the
\* index (1 + 1)
C22_Witness ==
    /\ IndexCall
    /\ IndexesList(clast.stmt.Args[1].Left)
    /\ comp.sb = "l = []" \o "\n" \o "print(l[(1 + 1)])" \o "\n"

\* `print(l[1])` after the block that declared `l list[num]` has finished is
\* emitted with the index 1
C22_WitnessUnadjusted ==
    /\ IndexCall
    /\ comp.sb = "m = {}" \o "\n" \o "local l = []" \o "\n" \o "\n"
                 \o "print(l[1])" \o "\n"

\* `print(l[0][1])` with l declared: the inner index of the list is
\* adjusted, the outer one is not
C22_WitnessNested ==
    /\ IndexCall
    /\ clast.before.scope = 1
    /\ "l" \in DOMAIN clast.before.variables
    /\ clast.stmt.Args[1].Left.k = "ExprIndex"
    /\ comp.sb = clast.before.sb \o "print(l[(0 + 1)][1])" \o "\n"

\* the type t is a Custom type whose object was not registered before the
\* last step
Unregistered(t) == t.k = "Custom" /\ t.Name \notin DOMAIN clast.before.objects

\* C24: the compiler rejects the use of a Custom type for which no object has
\* been registered by an earlier statement: a declaration of a variable of
\* that type fails with an error, without and with an initializer, and the
\* assignment of a table literal to a variable of that type fails.
C24_UnregisteredType ==
    /\ (LastStmt("StmtVarDeclare") /\ Unregistered(clast.stmt.DataType)) =>
           /\ cpc = "failed"
           /\ cerr # NoErr
    /\ ( /\ LastStmt("StmtVarAssign")
         /\ clast.stmt.Expr.k = "ExprTable"
         /\ clast.stmt.VariableName \in DOMAIN clast.before.variables
         /\ Unregistered(clast.before.variables[clast.stmt.VariableName].dataType) ) =>
           /\ cpc = "failed"
           /\ cerr # NoErr

\* `p c = 1` has compiled with no object c registered: p is in the symbol
\* table with the type c and `p = 1` is emitted
C24_DeclaredUnregistered ==
    /\ LastStmt("StmtVarDeclare")
    /\ clast.stmt = StmtVarDeclare("p", Custom("c"), ExprNumber("1"))
    /\ "c" \notin DOMAIN comp.objects
    /\ cpc = "run"
    /\ cerr = NoErr
    /\ comp.variables["p"].dataType = Custom("c")
    /\ comp.sb = clast.before.sb \o (IF clast.before.scope = 1 THEN "" ELSE "local ")
                 \o "p = 1" \o "\n"

\* the text of the value of the declaration stmt: the zero value of the type
\* or the initializer, compiled into an empty buffer
DeclaredValue(c, stmt) ==
    LET empty == [c EXCEPT !.sb = ""] IN
    IF stmt.Expr = NilExpr
    THEN compileDataTypeZeroValue(empty, stmt.DataType, {}).c.sb
    ELSE IF IsObjectTable(empty, stmt.DataType, stmt.Expr)
    THEN compileExprTableWithZeroValues(empty, stmt.Expr, stmt.DataType).c.sb
    ELSE compileExpr(empty, stmt.Expr).c.sb

\* C26: a variable declaration that compiles is emitted as `name = value` when
\* the scope depth is 1, the root block, and as `local name = value` at every
\* greater depth.
C26_LocalQualifier ==
    (LastStmt("StmtVarDeclare") /\ cpc = "run") =>
        LET name == clast.stmt.VariableName
            value == DeclaredValue(clast.before, clast.stmt)
        IN /\ clast.before.scope >= 1
           /\ clast.before.scope = 1 =>
                  comp.sb = clast.before.sb \o name \o " = " \o value \o "\n"
           /\ clast.before.scope > 1 =>
                  comp.sb = clast.before.sb \o "local " \o name \o " = " \o value \o "\n"

\* `y str = "s"` in the root block, then `x num` in a block of a block
C26_Witness ==
    /\ LastStmt("StmtVarDeclare")
    /\ cpc = "run"
    /\ clast.before.scope = 3
    /\ comp.sb = "y = \"s\"" \o "\n" \o "local x = 0" \o "\n"

\* the entries of the symbol table of c with a depth below depth
EntriesBelow(c, depth) ==
    [name \in {n \in DOMAIN c.variables : c.variables[n].scope < depth}
        |-> c.variables[name]]

\* C27: at every point of a compilation the depth recorded in every entry of
\* the symbol table is between 1 and the current scope depth; the end of a
\* block sets the scope depth back to the depth at which the block was
\* entered and leaves exactly the entries of a smaller depth than the block's,
\* which are the entries the table had when the block was entered; when the
\* root block has completed the scope depth is 0 and the symbol table is
\* empty.
C27_ScopeBookkeeping ==
    /\ \A name \in DOMAIN comp.variables :
           /\ comp.variables[name].scope >= 1
           /\ comp.variables[name].scope <= comp.scope
    /\ cpc = "run" =>
           /\ comp.scope = Len(declared)
           /\ DOMAIN comp.variables = OpenNames
           /\ \A name \in OpenNames :
                  /\ name \in DOMAIN declared[comp.variables[name].scope]
                  /\ comp.variables[name].dataType = OpenType(name)
    /\ clast.op = "enter" =>
           /\ comp.scope = clast.before.scope + 1
           /\ comp.variables = clast.before.variables
    /\ clast.op = "exit" =>
           /\ comp.scope = clast.before.scope - 1
           /\ comp.variables = EntriesBelow(clast.before, clast.before.scope)
    /\ cpc = "done" =>
           /\ comp.scope = 0
           /\ DOMAIN comp.variables = {}

\* a block that declared y has finished in the root block that declared x:
\* y is removed, x is kept with depth 1
C27_Witness ==
    /\ clast.op = "exit"
    /\ clast.before.scope = 2
    /\ DOMAIN clast.before.variables = {"x", "y"}
    /\ clast.before.variables["x"].scope = 1
    /\ clast.before.variables["y"].scope = 2
    /\ comp.scope = 1
    /\ DOMAIN comp.variables = {"x"}
    /\ comp.variables["x"] = clast.before.variables["x"]

\* the root block has completed after a declaration
C27_WitnessDone ==
    /\ cpc = "done"
    /\ clast.op = "exit"
    /\ DOMAIN clast.before.variables # {}
    /\ comp.scope = 0
    /\ DOMAIN comp.variables = {}

----------------------------------------------------------------------------
(* Claims about Binary expressions.                                        *)

\* the last statement compiled assigned a Binary expression
BinaryAssigned ==
    /\ LastStmt("StmtVarAssign")
    /\ clast.stmt.Expr.k = "ExprBinary"

\* Compile has returned an error and no Lua
CompileFailed ==
    /\ cpc = "failed"
    /\ cerr # NoErr
    /\ lua = ""

\* C30, the emission part: Compile fails with an error when a Binary
\* expression reaches expression emission, and a Binary expression given for
\* a name that is no field of the object is not emitted and does not fail.
C30_NoEmissionRule ==
    /\ BinaryEmitted => CompileFailed
    /\ ( /\ LastStmt("StmtVarDeclare")
         /\ clast.stmt = StmtVarDeclare("u", Custom("a"),
                              ExprTable(<<TablePair(ExprVariable("q"), OnePlusTwo)>>))
         /\ "a" \in DOMAIN clast.before.objects
         /\ ~alreadyExists(clast.before, "u") ) => cpc = "run"

\* the assignment part for variables that are declared
C30_DeclaredAssigned ==
    ( BinaryAssigned /\ clast.stmt.VariableName \in DOMAIN clast.before.variables
      /\ ~TypeStringPanics(clast.before.variables[clast.stmt.VariableName].dataType) ) =>
        (CompileFailed /\ ErrorsIs(cerr, "invalid type assign"))

\* C30: Compile fails with an error when a Binary expression reaches
\* expression emission, and every assignment whose right-hand side is a
\* Binary expression fails with ErrInvalidTypeAssign.
C30_BinaryRejected ==
    /\ BinaryEmitted => CompileFailed
    /\ BinaryAssigned => (CompileFailed /\ ErrorsIs(cerr, "invalid type assign"))

\* `k = 1 + 2` for k of type map[r:num]: the process has died in the
\* rendering of the type for the error
C30_AssignPanics ==
    /\ BinaryAssigned
    /\ clast.stmt.VariableName = "k"
    /\ "k" \in DOMAIN clast.before.variables
    /\ cpc = "crashed"

\* `q = 1 + 2` for q that is not declared: the error is not
\* ErrInvalidTypeAssign
C30_AssignUndeclared ==
    /\ BinaryAssigned
    /\ clast.stmt.VariableName \notin DOMAIN clast.before.variables
    /\ cpc = "failed"
    /\ ~ErrorsIs(cerr, "invalid type assign")

\* `print([1, 1 + 2])` has failed
C30_WitnessEmitted ==
    /\ BinaryEmitted
    /\ clast.stmt = StmtCallFunction("print", <<ExprList(<<ExprNumber("1"), OnePlusTwo>>)>>)
    /\ CompileFailed

\* `x = 1 + 2` for x of type num has failed with ErrInvalidTypeAssign
C30_WitnessAssigned ==
    /\ BinaryAssigned
    /\ clast.stmt.VariableName = "x"
    /\ "x" \in DOMAIN clast.before.variables
    /\ ErrorsIs(cerr, "invalid type assign")

----------------------------------------------------------------------------
(* checkExpressionValidDataType, called on a compiler that has compiled    *)
(* object definitions: the call, and the same call once more.              *)

\* `a obj { x num y b }` and `b obj { z str }`
CheckObjects ==
    << StmtObjDefine("a", <<FieldTypePair("x", Number), FieldTypePair("y", Custom("b"))>>),
       StmtObjDefine("b", <<FieldTypePair("z", String)>>) >>

\* the compiler in the root block after the first n definitions of CheckObjects
RECURSIVE CompiledObjects(_)
CompiledObjects(n) ==
    IF n = 0 THEN [NewCompiler EXCEPT !.scope = @ + 1]
    ELSE WriteString(compileStmt(CompiledObjects(n - 1), CheckObjects[n]).c, "\n")

CheckCompilers == {CompiledObjects(n) : n \in 0..Len(CheckObjects)}

\* the declared types, among them those of `map[a:num]` and `list[map[a:num]]`
CheckTypes ==
    { Number, String, Boolean,
      List(Number), List(List(String)), List(Custom("b")),
      Map(String, Number), Map(Number, List(Boolean)),
      Custom("a"), Custom("b"), Custom("u"),
      Map(Custom("b"), Number), List(Map(Custom("b"), Number)) }

\* literals, and the expressions that are not literals
CheckLeaves ==
    { ExprNumber("1"), ExprString("s"), ExprBoolean("true"),
      ExprVariable("x"),
      ExprIndex(ExprVariable("l"), ExprNumber("0")),
      ExprPropertyAccess(ExprVariable("v"), "x"),
      ExprBinary(ExprNumber("1"), TokenType_Plus, ExprNumber("2")) }

\* list and table literals one level down
CheckInner ==
    { ExprList(<<ExprString("s")>>), ExprList(<<ExprBoolean("true")>>),
      ExprList(<<ExprVariable("x")>>),
      ExprTable(<<TablePair(ExprVariable("z"), ExprString("s"))>>),
      ExprTable(<<TablePair(ExprVariable("z"), ExprNumber("1"))>>),
      ExprTable(<<TablePair(ExprString("z"), ExprString("s"))>>),
      ExprTable(<<TablePair(ExprString("k"), ExprNumber("1"))>>) }

CheckPairs ==
    { TablePair(ExprString("k"), ExprNumber("1")),
      TablePair(ExprString("k"), ExprVariable("x")),
      TablePair(ExprNumber("1"), ExprList(<<ExprBoolean("true")>>)),
      TablePair(ExprVariable("x"), ExprNumber("1")),
      TablePair(ExprVariable("x"), ExprString("s")),
      TablePair(ExprVariable("y"), ExprTable(<<TablePair(ExprVariable("z"), ExprString("s"))>>)),
      TablePair(ExprVariable("y"), ExprTable(<<TablePair(ExprVariable("z"), ExprNumber("1"))>>)),
      TablePair(ExprVariable("z"), ExprString("s")),
      TablePair(ExprVariable("q"), ExprNumber("1")),
      TablePair(ExprTable(<<TablePair(ExprVariable("z"), ExprString("s"))>>), ExprNumber("1")) }

CheckExprs ==
    CheckLeaves
    \cup {ExprList(values) : values \in SeqsUpTo(CheckLeaves \cup CheckInner, MaxElems)}
    \cup {ExprTable(pairs) : pairs \in SeqsUpTo(CheckPairs, MaxElems)}

\* e with parentheses around it, or around the first element or the first
\* value when e is a list or table literal that has one
Parenthesized(e) ==
    CASE e.k = "ExprList" /\ Len(e.Values) > 0 ->
            ExprList(<<ExprBlock(e.Values[1])>> \o Tail(e.Values))
      [] e.k = "ExprTable" /\ Len(e.Pairs) > 0 ->
            ExprTable(<<TablePair(e.Pairs[1].Key, ExprBlock(e.Pairs[1].Value))>>
                      \o Tail(e.Pairs))
      [] OTHER -> ExprBlock(e)

\* the compiler when checkExpressionValidDataType returns: the method and the
\* checkExpressionValid* methods it calls read c.objects and assign to no
\* field of c
CheckedCompiler(c, dataType, expr) == c

InitCheck ==
    /\ scn = "check"
    /\ comp \in CheckCompilers
    /\ cpc = "run"
    /\ lua = ""
    /\ cerr = NoErr
    /\ nStmts = 0
    /\ clast = [op |-> "none"]
    /\ declared = <<<<>>>>
    /\ LexIdle
    /\ ParIdle

\* err = c.checkExpressionValidDataType(dataType, expr); a panic ends the
\* process
CheckCall(dataType, expr, op) ==
    With(checkExpressionValidDataType(comp, dataType, expr), LAMBDA err :
    /\ cerr' = err
    /\ cpc' = IF Dies(err) THEN "crashed" ELSE "run"
    /\ comp' = CheckedCompiler(comp, dataType, expr)
    /\ clast' = [op |-> op, dataType |-> dataType, expr |-> expr,
                 before |-> comp, first |-> cerr]
    /\ UNCHANGED <<lua, nStmts, declared, scn>>
    /\ UNCHANGED lexVars
    /\ UNCHANGED parVars)

CheckExpression ==
    /\ cpc = "run"
    /\ clast.op = "none"
    /\ \E dataType \in CheckTypes, expr \in CheckExprs, parens \in BOOLEAN :
           CheckCall(dataType, IF parens THEN Parenthesized(expr) ELSE expr, "check")

\* the same call again
CheckExpressionAgain ==
    /\ cpc = "run"
    /\ clast.op = "check"
    /\ CheckCall(clast.dataType, clast.expr, "again")

NextCheck == CheckExpression \/ CheckExpressionAgain

SpecCheck == InitCheck /\ [][NextCheck]_vars

----------------------------------------------------------------------------
(* Claims about checkExpressionValidDataType.                              *)

\* the fields of the registered object name that are called field
FieldsNamed(objects, name, field) ==
    {i \in DOMAIN objects[name] : objects[name][i].Field = field}

\* the shape of e matches the type t, with the objects of the registry
RECURSIVE ShapeMatches(_, _, _)
ShapeMatches(objects, t, e) ==
    CASE t.k = "Number" -> e.k = "ExprNumber"
      [] t.k = "String" -> e.k = "ExprString"
      [] t.k = "Boolean" -> e.k = "ExprBoolean"
      [] t.k = "List" ->
            /\ e.k = "ExprList"
            /\ \A i \in DOMAIN e.Values : ShapeMatches(objects, t.ListType, e.Values[i])
      [] t.k = "Map" ->
            /\ e.k = "ExprTable"
            /\ \A i \in DOMAIN e.Pairs :
                   /\ ShapeMatches(objects, t.KeyType, e.Pairs[i].Key)
                   /\ ShapeMatches(objects, t.ValueType, e.Pairs[i].Value)
      [] t.k = "Custom" ->
            /\ e.k = "ExprTable"
            /\ t.Name \in DOMAIN objects
            /\ \A i \in DOMAIN e.Pairs :
                   /\ e.Pairs[i].Key.k = "ExprVariable"
                   /\ \E f \in FieldsNamed(objects, t.Name, e.Pairs[i].Key.Name) :
                          ShapeMatches(objects, objects[t.Name][f].Type, e.Pairs[i].Value)

\* checkExpressionValidDataType has been called
Checked == clast.op \in {"check", "again"}

\* it returned nil
Accepted == Checked /\ cerr = NoErr

\* it returned an error
Rejected == Checked /\ cerr # NoErr /\ ~Dies(cerr)

\* C19: checkExpressionValidDataType accepts a type and an expression exactly
\* when the shape of the expression matches the type recursively (the literal
\* of the kind for Number, String and Boolean, a list literal of matching
\* elements for List, a table literal of matching keys and values for Map, a
\* table literal of labels that name fields of the registered object with
\* matching values for Custom), and rejects every other pair with an error.
C19_ShapeCheck ==
    Checked =>
        /\ Accepted <=> ShapeMatches(clast.before.objects, clast.dataType, clast.expr)
        /\ Rejected <=> ~ShapeMatches(clast.before.objects, clast.dataType, clast.expr)

\* the number 1 has been checked against `map[b:num]` and the call has
\* ended the process in Map.String(), with neither nil nor an error returned
C19_RejectionPanics ==
    /\ Checked
    /\ clast.dataType = Map(Custom("b"), Number)
    /\ clast.expr.k = "ExprNumber"
    /\ clast.expr.Value = "1"
    /\ cpc = "crashed"
    /\ ~Accepted
    /\ ~Rejected

C20_ReturningCalls ==
    (Accepted \/ Rejected) =>
        /\ cpc = "run"
        /\ comp = clast.before
        /\ clast.op = "again" => cerr = clast.first

C20_Witness ==
    /\ clast.op = "again"
    /\ Accepted
    /\ clast.dataType = Custom("a")
    /\ clast.expr = ExprTable(<<TablePair(ExprVariable("x"), ExprNumber("1")),
                                TablePair(ExprVariable("y"),
                                          ExprTable(<<TablePair(ExprVariable("z"),
                                                                ExprString("s"))>>))>>)
    /\ clast.first = NoErr
    /\ DOMAIN comp.objects = {"a", "b"}

\* a table has been rejected twice for the object u that is not registered
C20_WitnessRejected ==
    /\ clast.op = "again"
    /\ clast.dataType = Custom("u")
    /\ clast.expr.k = "ExprTable"
    /\ Rejected
    /\ EndsWith(cerr, <<"object %q not found", "u">>)

----------------------------------------------------------------------------
(* Claims about declarations and assignments with a value that does not    *)
(* fit the declared type.                                                  *)

\* the error of emitting the value of the declaration stmt, the variable
\* being registered: NoErr when the initializer can be emitted
DeclaredValueErr(c, stmt) ==
    LET var == [scope |-> c.scope, dataType |-> stmt.DataType]
        c1 == [c EXCEPT !.variables = (stmt.VariableName :> var) @@ @]
    IN IF IsObjectTable(c1, stmt.DataType, stmt.Expr)
       THEN compileExprTableWithZeroValues(c1, stmt.Expr, stmt.DataType).err
       ELSE compileExpr(c1, stmt.Expr).err

\* the last step compiled a declaration of a new name with an initializer
\* whose shape does not match the declared type
MismatchedDeclare ==
    /\ LastStmt("StmtVarDeclare")
    /\ clast.stmt.Expr # NilExpr
    /\ clast.stmt.VariableName \notin DOMAIN clast.before.variables
    /\ ~ShapeMatches(clast.before.objects, clast.stmt.DataType, clast.stmt.Expr)

\* C28: a variable declaration never checks its initializer against the
\* declared type.  A declaration of a new name whose initializer does not
\* match the type never fails with ErrInvalidTypeAssign; it compiles without
\* error whenever the initializer can be emitted, and the variable is
\* registered with the declared type.  An assignment of an expression that
\* is not a variable and does not match the declared type does not compile,
\* and ErrInvalidTypeAssign comes from assignments only.
C28_UncheckedInitializer ==
    /\ LastStmt("StmtVarDeclare") => ~ErrorsIs(cerr, "invalid type assign")
    /\ MismatchedDeclare =>
           /\ clast.stmt.VariableName \in DOMAIN comp.variables
           /\ comp.variables[clast.stmt.VariableName] =
                  [scope |-> clast.before.scope, dataType |-> clast.stmt.DataType]
           /\ cpc = "run" <=> DeclaredValueErr(clast.before, clast.stmt) = NoErr
    /\ ( /\ LastStmt("StmtVarAssign")
         /\ clast.stmt.Expr.k # "ExprVariable"
         /\ clast.stmt.VariableName \in DOMAIN clast.before.variables
         /\ ~ShapeMatches(clast.before.objects,
                          clast.before.variables[clast.stmt.VariableName].dataType,
                          clast.stmt.Expr) ) => cpc \in {"failed", "crashed"}
    /\ ErrorsIs(cerr, "invalid type assign") => LastStmt("StmtVarAssign")

\* `s str = 123` has compiled
C28_Witness ==
    /\ MismatchedDeclare
    /\ clast.stmt = StmtVarDeclare("s", String, ExprNumber("123"))
    /\ cpc = "run"
    /\ cerr = NoErr
    /\ comp.sb = "s = 123" \o "\n"
    /\ comp.variables["s"].dataType = String

\* `v a = { k: 1 }` has compiled for the object a that has no field k
C28_WitnessUnknownField ==
    /\ MismatchedDeclare
    /\ clast.stmt.DataType.k = "Custom"
    /\ clast.stmt.DataType.Name \in DOMAIN clast.before.objects
    /\ clast.stmt.Expr = ExprTable(<<TablePair(ExprVariable("k"), ExprNumber("1"))>>)
    /\ cpc = "run"
    /\ cerr = NoErr

\* `s = 123` has failed for the variable that `s str = 123` declared
C28_WitnessAssign ==
    /\ LastStmt("StmtVarAssign")
    /\ clast.stmt = StmtVarAssign("s", ExprNumber("123"))
    /\ clast.before.sb = "s = 123" \o "\n"
    /\ cpc = "failed"
    /\ ErrorsIs(cerr, "invalid type assign")

----------------------------------------------------------------------------
(* Parse as a state machine: one step per iteration of the loop of         *)
(* parseBlock, on the lexer the parser was built with.                     *)

\* the lexemes parser inputs are made of, as runes
ParseLexemes ==
    { <<"a">>, <<"1">>, <<"\"", "x", "\"">>, <<"=">>, <<"(">>, <<")">>,
      <<"n", "u", "m">>, <<"o", "b", "j">>, <<"{">>, <<"}">>, <<"[">>, <<"]">>,
      <<"+">>, <<"$">> }

\* the lexemes with a space between them
RECURSIVE JoinLexemes(_)
JoinLexemes(lexemes) ==
    IF Len(lexemes) = 0 THEN <<>>
    ELSE IF Len(lexemes) = 1 THEN lexemes[1]
    ELSE lexemes[1] \o <<" ">> \o JoinLexemes(Tail(lexemes))

\* the source text `print(1,2)`
PrintSource == <<"p", "r", "i", "n", "t", "(", "1", ",", "2", ")">>

\* programs of the tests and of the language's documentation
ParseSamples ==
    { <<<<"s">>, <<"s", "t", "r">>, <<"=">>, <<"\"", "h", "i", "\"">>, <<"\n">>,
        <<"s">>, <<"=">>, <<"1", "2", "3">>>>,
      <<<<"p", "r", "i", "n", "t">>, <<"(">>, <<"1">>, <<",">>, <<"2">>, <<")">>>>,
      <<<<"p", "r", "i", "n", "t">>, <<"(">>, <<")">>>>,
      <<PrintSource>>,
      <<<<"a">>, <<"o", "b", "j">>, <<"{">>, <<"x">>, <<"n", "u", "m">>, <<"y">>,
        <<"b">>, <<"}">>, <<"v">>, <<"a">>>>,
      <<<<"l">>, <<"l", "i", "s", "t">>, <<"[">>, <<"s", "t", "r">>, <<"]">>, <<"=">>,
        <<"[">>, <<"\"", "a", "\"">>, <<",">>, <<"\"", "b", "\"">>, <<"]">>>>,
      <<<<"m">>, <<"m", "a", "p">>, <<"[">>, <<"s", "t", "r">>, <<":">>,
        <<"n", "u", "m">>, <<"]">>, <<"=">>, <<"{">>, <<"\"", "k", "\"">>, <<":">>,
        <<"1">>, <<"}">>>>,
      <<<<"v">>, <<"=">>, <<"{">>, <<"x">>, <<":">>, <<"1">>, <<",">>, <<"y">>, <<":">>,
        <<"t", "r", "u", "e">>, <<"}">>>>,
      <<<<"x">>, <<"=">>, <<"l">>, <<"[">>, <<"0">>, <<"]">>, <<".">>, <<"f">>, <<"+">>,
        <<"1">>, <<"*">>, <<"(">>, <<"2">>, <<"-">>, <<"c">>, <<")">>>>,
      <<<<"x">>, <<"n", "u", "m">>, <<"/", "/">>, <<"c">>, <<"\n">>, <<"1">>>> }

\* programs and, in each, the positions of the punctuation tokens the parser
\* asks ConsumeToken for
RequiredPunctuation ==
    { <<<<<<"m">>, <<"m", "a", "p">>, <<"[">>, <<"s", "t", "r">>, <<":">>,
          <<"n", "u", "m">>, <<"]">>, <<"=">>, <<"{">>, <<"\"", "k", "\"">>, <<":">>,
          <<"1">>, <<"}">>>>, {3, 5, 7, 11}>>,
      <<<<<<"x">>, <<"=">>, <<"(">>, <<"1">>, <<")">>>>, {5}>>,
      <<<<<<"a">>, <<"o", "b", "j">>, <<"{">>, <<"x">>, <<"n", "u", "m">>, <<"}">>>>, {3}>> }

\* tokens put where a punctuation token is required
WrongTokens == {<<"=">>, <<",">>, <<"]">>, <<"a">>, <<"1">>}

\* the programs of RequiredPunctuation with one required punctuation token
\* replaced by a token of another kind
PunctuationMismatches ==
    UNION { {[pp[1] EXCEPT ![ix[1]] = ix[2]] :
                ix \in {jx \in pp[2] \X WrongTokens : jx[2] # pp[1][jx[1]]}} :
            pp \in RequiredPunctuation }

\* the binary operators as lexemes, and the operands a, 1, c
OperatorLexemes == {<<"+">>, <<"-">>, <<"*">>, <<"/">>}

\* `x = a op 1` and `x = a op 1 op c` for all operators, and an expression
\* followed by another statement
BinarySources ==
    {<<<<"x">>, <<"=">>, <<"a">>, op, <<"1">>>> : op \in OperatorLexemes}
    \cup {<<<<"x">>, <<"=">>, <<"a">>, ops[1], <<"1">>, ops[2], <<"c">>>> :
             ops \in OperatorLexemes \X OperatorLexemes}
    \cup {<<<<"x">>, <<"=">>, <<"a">>, <<"+">>, <<"1">>, <<"y">>, <<"=">>, <<"c">>>>}

\* the keys of a table literal as lexemes: 1, "x", true, a, [1], {a: 1},
\* l[0], v.x, (1), 1 + 2
TableKeyLexemes ==
    { <<<<"1">>>>, <<<<"\"", "x", "\"">>>>, <<<<"t", "r", "u", "e">>>>, <<<<"a">>>>,
      <<<<"[">>, <<"1">>, <<"]">>>>,
      <<<<"{">>, <<"a">>, <<":">>, <<"1">>, <<"}">>>>,
      <<<<"l">>, <<"[">>, <<"0">>, <<"]">>>>,
      <<<<"v">>, <<".">>, <<"x">>>>,
      <<<<"(">>, <<"1">>, <<")">>>>,
      <<<<"1">>, <<"+">>, <<"2">>>> }

\* `print({ key: 2 })` for the keys
TableKeySources ==
    { <<<<"p", "r", "i", "n", "t">>, <<"(">>, <<"{">>>> \o key
          \o <<<<":">>, <<"2">>, <<"}">>, <<")">>>> : key \in TableKeyLexemes }

ParseInputs ==
    {JoinLexemes(lexemes) : lexemes \in BinarySources \cup TableKeySources}
    \cup
    {JoinLexemes(lexemes) :
        lexemes \in SeqsUpTo(ParseLexemes, MaxToks) \cup ParseSamples
                        \cup {pp[1] : pp \in RequiredPunctuation}
                        \cup PunctuationMismatches}

\* parser.New(lexer.New(input)), and Parse has called parseBlock
InitParse ==
    /\ \E input \in ParseInputs : lexer = NewLexer(input)
    /\ lres = NewCallRecord
    /\ nGot = 0
    /\ stmts = <<>>
    /\ ppc = "run"
    /\ pnode = NilStmt
    /\ perr = NoErr
    /\ piter = 0
    /\ CompIdle

\* Parse returns
ParseReturns(l, node, err) ==
    /\ lexer' = l
    /\ ppc' = IF err # NoErr THEN "failed" ELSE "done"
    /\ pnode' = node
    /\ perr' = err
    /\ UNCHANGED stmts

\* the loop's PeekToken finds the end of the input: parseBlock returns the
\* block
ParseBlockEnd ==
    /\ ppc = "run"
    /\ With(PeekToken(lexer), LAMBDA pk :
       /\ IsEOF(pk.err)
       /\ ParseReturns(pk.l, StmtBlock(stmts), NoErr))
    /\ piter' = 1 - piter
    /\ UNCHANGED <<lres, nGot>>
    /\ UNCHANGED compVars

\* the loop's PeekToken fails
ParseBlockPeekFails ==
    /\ ppc = "run"
    /\ With(PeekToken(lexer), LAMBDA pk :
       /\ pk.err # NoErr
       /\ ~IsEOF(pk.err)
       /\ ParseReturns(pk.l, StmtBlock(<<>>), Wrap("failed to peek token", pk.err)))
    /\ piter' = 1 - piter
    /\ UNCHANGED <<lres, nGot>>
    /\ UNCHANGED compVars

\* one iteration of the loop that calls parseStmt
ParseBlockStmt ==
    /\ ppc = "run"
    /\ With(PeekToken(lexer), LAMBDA pk :
       /\ pk.err = NoErr
       /\ With(parseStmt(pk.l), LAMBDA r :
          IF r.err # NoErr
          THEN ParseReturns(r.l, StmtBlock(<<>>), Wrap("failed to parse statement", r.err))
          ELSE /\ lexer' = r.l
               /\ stmts' = IF r.v # NilStmt THEN Append(stmts, r.v) ELSE stmts
               /\ UNCHANGED <<ppc, pnode, perr>>))
    /\ piter' = 1 - piter
    /\ UNCHANGED <<lres, nGot>>
    /\ UNCHANGED compVars

NextParse == ParseBlockEnd \/ ParseBlockPeekFails \/ ParseBlockStmt

SpecParse == InitParse /\ [][NextParse]_vars

\* an iteration of the loop of parseBlock: every step of NextParse is one
ParseBlockIterates == ppc = "run" /\ piter' = 1 - piter

\* Parse runs on: the loop of parseBlock keeps iterating until it returns
SpecParseFair == SpecParse /\ WF_piter(ParseBlockIterates)

----------------------------------------------------------------------------
(* Source to Lua: the text is parsed, and when Parse has returned its root *)
(* block without error Compile is called on it (Test_CompileExamples).     *)
(* The parser builds no nested blocks, so Compile runs the loop of         *)
(* compileStmtBlock once, over the statements of the root block in order.  *)

\* Compile is called on the node Parse returned and enters the root block
CompileParsedEnter ==
    /\ ppc = "done"
    /\ cpc = "idle"
    /\ cpc' = "run"
    /\ comp' = [NewCompiler EXCEPT !.scope = @ + 1]
    /\ clast' = [op |-> "enter", before |-> NewCompiler]
    /\ declared' = <<<<>>>>
    /\ UNCHANGED <<lua, cerr, nStmts, scn>>
    /\ UNCHANGED lexVars
    /\ UNCHANGED parVars

\* the loop of compileStmtBlock compiles the next statement of the root block
CompileParsedStmt ==
    /\ ppc = "done"
    /\ nStmts < Len(pnode.Stmts)
    /\ StepStmt(pnode.Stmts[nStmts + 1])

\* the statements of the root block are over: Compile returns the text
CompileParsedExit ==
    /\ ppc = "done"
    /\ nStmts = Len(pnode.Stmts)
    /\ ExitBlock

NextSource ==
    \/ ParseBlockEnd
    \/ ParseBlockPeekFails
    \/ ParseBlockStmt
    \/ CompileParsedEnter
    \/ CompileParsedStmt
    \/ CompileParsedExit

SpecSource == InitParse /\ [][NextSource]_vars

----------------------------------------------------------------------------
(* Claims about source to Lua.                                             *)

\* the root block `print(1,2)` parses to
PrintBlock ==
    StmtBlock(<<StmtCallFunction("print", <<ExprNumber("1"), ExprNumber("2")>>)>>)

\* the text of an argument compiled on its own, and whether it compiles
ArgText(c, e) == compileExpr([c EXCEPT !.sb = ""], e).c.sb
ArgCompiles(c, e) == compileExpr([c EXCEPT !.sb = ""], e).err = NoErr

\* the call statement the last step compiled was emitted as the name, `(`,
\* the arguments joined by single commas, `)`, and the line end of the block
CallEmitted ==
    LET call == clast.stmt
        args == call.Args
    IN (\A i \in 1..Len(args) : ArgCompiles(clast.before, args[i])) =>
       /\ cpc = "run"
       /\ comp.sb = clast.before.sb \o call.FunctionName \o "("
                        \o JoinComma([i \in 1..Len(args) |-> ArgText(clast.before, args[i])])
                        \o ")" \o "\n"

\* C12: the source `print(1,2)` parses to a root Block holding one
\* CallFunction statement named `print` with exactly the two Number-literal
\* arguments `1` and `2`, and Compile of that block returns that call followed
\* by the line end compileStmtBlock writes after every statement of a block:
\* the text `print(1,2)` and a line feed.  In general a function call is
\* emitted as the name, `(`, the compiled arguments joined by single commas
\* with no trailing comma, and `)`.
C12_PrintCall ==
    /\ lexer.input = PrintSource =>
           /\ ppc # "failed"
           /\ cpc \notin {"failed", "crashed"}
           /\ ppc = "done" => (pnode = PrintBlock /\ perr = NoErr)
           /\ cpc = "done" => (lua = "print(1,2)" \o "\n" /\ cerr = NoErr)
    /\ clast.op = "StmtCallFunction" => CallEmitted

\* C12 as stated: Compile of the block `print(1,2)` parses to returns exactly
\* the text `print(1,2)`.
C12_ExactText ==
    (lexer.input = PrintSource /\ cpc = "done") => lua = "print(1,2)"

\* Compile has returned the text of `print(1,2)`
C12_Witness ==
    /\ lexer.input = PrintSource
    /\ pnode = PrintBlock
    /\ cpc = "done" /\ cerr = NoErr
    /\ lua = "print(1,2)" \o "\n"

\* the source is `print({ key: 2 })` and the call has been parsed and compiled
TableKeyCompiled ==
    /\ lexer.input \in {JoinLexemes(lexemes) : lexemes \in TableKeySources}
    /\ ppc = "done"
    /\ LastStmt("StmtCallFunction")

\* the key of the table literal that is the argument of the compiled call
CompiledKey == clast.stmt.Args[1].Pairs[1].Key

\* C23: a table literal's key that is a number, string or boolean literal is
\* emitted in its literal form, a bare label is emitted as the name in double
\* quotes, and a table literal with a key of another kind is rejected with an
\* error by Parse or by Compile and is never emitted with a missing key.
C23_TableKeys ==
    TableKeyCompiled =>
        CASE CompiledKey.k \in {"ExprNumber", "ExprBoolean"} ->
                /\ cpc = "run"
                /\ comp.sb = "print({" \o CompiledKey.Value \o ":2})" \o "\n"
          [] CompiledKey.k = "ExprString" ->
                /\ cpc = "run"
                /\ comp.sb = "print({" \o "\"" \o CompiledKey.Value \o "\"" \o ":2})" \o "\n"
          [] CompiledKey.k = "ExprVariable" ->
                /\ cpc = "run"
                /\ comp.sb = "print({" \o "\"" \o CompiledKey.Name \o "\"" \o ":2})" \o "\n"
          [] OTHER ->
                /\ cpc = "failed"
                /\ comp.sb = ""

\* `print({ [1]: 2 })` has parsed and compiled, and the table is emitted
\* without a key
C23_MissingKey ==
    /\ lexer.input \in {JoinLexemes(lexemes) : lexemes \in TableKeySources}
    /\ ppc = "done"
    /\ pnode.Stmts[1].Args[1].Pairs[1].Key = ExprList(<<ExprNumber("1")>>)
    /\ cpc = "done"
    /\ cerr = NoErr
    /\ lua = "print({:2})" \o "\n"

----------------------------------------------------------------------------
(* Claims about the parser.                                                *)

\* the token the loop of parseBlock finds at statement position, and the token
\* after it
FirstToken == PeekToken(lexer)
SecondToken == PeekToken(GetToken(lexer).l)

\* a statement that starts with a Label begins here
AtLabelStatement ==
    ppc = "run" /\ FirstToken.err = NoErr /\ FirstToken.tok.Type = TokenType_Label

\* the kind of statement the token after the label stands for, "none" when
\* it stands for no statement
KindAfterLabel(next) ==
    IF next.err # NoErr THEN "none"
    ELSE CASE next.tok.Type = TokenType_OpenParan -> "StmtCallFunction"
           [] next.tok.Type = TokenType_Label /\ next.tok.Value = "obj" -> "StmtObjDefine"
           [] next.tok.Type = TokenType_Label /\ next.tok.Value # "obj" -> "StmtVarDeclare"
           [] next.tok.Type = TokenType_Equal -> "StmtVarAssign"
           [] OTHER -> "none"

\* the name a statement of the parser carries
StmtName(stmt) ==
    CASE stmt.k = "StmtCallFunction" -> stmt.FunctionName
      [] stmt.k = "StmtObjDefine" -> stmt.Name
      [] OTHER -> stmt.VariableName

\* C13: a statement that starts with a Label is classified only by the token
\* that follows the label: `(` gives a CallFunction, the Label `obj` an
\* ObjDefine, any other Label a VarDeclare, `=` a VarAssign, each carrying the
\* label as its name; with any other token, or the end of the input, after
\* the label Parse fails with an error and returns no statement.
C13_LabelStatement ==
    [][AtLabelStatement =>
         LET kind == KindAfterLabel(SecondToken) IN
         /\ ppc' # "done"
         /\ ppc' = "run" =>
                /\ kind # "none"
                /\ stmts' = Append(stmts, stmts'[Len(stmts')])
                /\ stmts'[Len(stmts')].k = kind
                /\ StmtName(stmts'[Len(stmts')]) = FirstToken.tok.Value
         /\ kind = "none" =>
                /\ ppc' = "failed"
                /\ perr' # NoErr
                /\ pnode' = StmtBlock(<<>>)
         /\ ppc' = "failed" => (perr' # NoErr /\ pnode' = StmtBlock(<<>>))]_vars

\* an object definition and, after it, a declaration have been parsed
C13_Witness ==
    /\ ppc = "run"
    /\ Len(stmts) = 2
    /\ stmts[1].k = "StmtObjDefine" /\ stmts[2].k = "StmtVarDeclare"

\* a label followed by a number: Parse has failed
C13_WitnessOther ==
    /\ lexer.input = <<"a", " ", "1">>
    /\ ppc = "failed"

\* C14: where the grammar requires one specific punctuation token (the `[`,
\* `:` and `]` of a map type, the `:` after a key of a table literal, the `)`
\* closing a parenthesized expression, the `{` of an object definition) a
\* token of any other kind in that position makes Parse fail: Parse never
\* returns a block for a program with such a token.
C14_ExpectedToken ==
    lexer.input \in {JoinLexemes(lexemes) : lexemes \in PunctuationMismatches} =>
        ppc # "done"

\* `x = ( 1 ]` was parsed as the assignment of the parenthesized 1
C14_MismatchAccepted ==
    /\ lexer.input = JoinLexemes(<<<<"x">>, <<"=">>, <<"(">>, <<"1">>, <<"]">>>>)
    /\ ppc = "done" /\ perr = NoErr
    /\ pnode = StmtBlock(<<StmtVarAssign("x", ExprBlock(ExprNumber("1")))>>)

\* calls and the statement each is to parse to: no argument, one, two
CallSources ==
    { <<JoinLexemes(<<<<"p", "r", "i", "n", "t">>, <<"(">>, <<")">>>>),
        StmtCallFunction("print", <<>>)>>,
      <<JoinLexemes(<<<<"a">>, <<"(">>, <<")">>>>), StmtCallFunction("a", <<>>)>>,
      <<JoinLexemes(<<<<"a">>, <<"(">>, <<"1">>, <<")">>>>),
        StmtCallFunction("a", <<ExprNumber("1")>>)>>,
      <<PrintSource, StmtCallFunction("print", <<ExprNumber("1"), ExprNumber("2")>>)>> }

\* C15: the argument list of a function call is optional: `name()` parses
\* without error to a CallFunction statement with that name and no arguments,
\* and a call with n >= 1 comma-separated expressions parses to a CallFunction
\* with those n arguments in order.
C15_OptionalArguments ==
    \A call \in CallSources :
        lexer.input = call[1] =>
            /\ ppc # "failed"
            /\ ppc = "done" => (perr = NoErr /\ pnode = StmtBlock(<<call[2]>>))

\* Parse of `print ( )` has failed: an expression was expected at `)`
C15_NoArgumentsRejected ==
    /\ lexer.input = JoinLexemes(<<<<"p", "r", "i", "n", "t">>, <<"(">>, <<")">>>>)
    /\ ppc = "failed"
    /\ \E i \in 1..Len(perr.msg) : perr.msg[i] = "expected expression, got %q"
    /\ perr.msg[Len(perr.msg)] = TokenType_CloseParan

\* the token type of an operator lexeme, and its level: Sum below Product
OperatorType(op) ==
    CASE op = <<"+">> -> TokenType_Plus
      [] op = <<"-">> -> TokenType_Minus
      [] op = <<"*">> -> TokenType_Asterisk
      [] op = <<"/">> -> TokenType_ForwardSlash

OperatorLevel(op) == IF op \in {<<"+">>, <<"-">>} THEN 1 ELSE 2

\* the tree of operands joined by ops, by the grammar's rule: it splits at the
\* rightmost operator of the lowest level
RECURSIVE BinaryTree(_, _)
BinaryTree(operands, ops) ==
    IF Len(ops) = 0 THEN operands[1]
    ELSE LET lowest == CHOOSE v \in 1..2 :
                           /\ \E i \in 1..Len(ops) : OperatorLevel(ops[i]) = v
                           /\ \A i \in 1..Len(ops) : OperatorLevel(ops[i]) >= v
             k == CHOOSE i \in 1..Len(ops) :
                      /\ OperatorLevel(ops[i]) = lowest
                      /\ \A j \in (i + 1)..Len(ops) : OperatorLevel(ops[j]) > lowest
         IN ExprBinary(BinaryTree(SubSeq(operands, 1, k), SubSeq(ops, 1, k - 1)),
                       OperatorType(ops[k]),
                       BinaryTree(SubSeq(operands, k + 1, Len(operands)),
                                  SubSeq(ops, k + 1, Len(ops))))

\* the operands and the operators of a program of BinarySources
OperandsOf(lexemes) ==
    IF Len(lexemes) = 5 THEN <<ExprVariable("a"), ExprNumber("1")>>
    ELSE <<ExprVariable("a"), ExprNumber("1"), ExprVariable("c")>>

OperatorsOf(lexemes) ==
    IF Len(lexemes) = 5 THEN <<lexemes[4]>> ELSE <<lexemes[4], lexemes[6]>>

\* C16: binary expressions are parsed by precedence climbing with the levels
\* Comparison < Sum (`+ -`) < Product (`* /`) and left associativity: `a - 1 - c` parses to Binary(Binary(a,-,1),-,c),
\* `a + 1 * c` to Binary(a,+,Binary(1,*,c)), `a * 1 + c` to
\* Binary(Binary(a,*,1),+,c), and so for every pair of operators; a token
\* that is not a binary operator ends the expression without being consumed,
\* so the statement after it is parsed from that token on.
C16_Precedence ==
    /\ precedenceLowest < precedenceComparison
    /\ precedenceComparison < precedenceSum
    /\ precedenceSum < precedenceProduct
    /\ \A lexemes \in {b \in BinarySources : Len(b) \in {5, 7}} :
           lexer.input = JoinLexemes(lexemes) =>
               /\ ppc # "failed"
               /\ ppc = "done" =>
                      pnode = StmtBlock(<<StmtVarAssign(
                                  "x", BinaryTree(OperandsOf(lexemes), OperatorsOf(lexemes)))>>)
    /\ lexer.input = JoinLexemes(<<<<"x">>, <<"=">>, <<"a">>, <<"+">>, <<"1">>,
                                    <<"y">>, <<"=">>, <<"c">>>>) =>
           /\ ppc # "failed"
           /\ Len(stmts) >= 1 =>
                  /\ stmts[1] = StmtVarAssign("x", ExprBinary(ExprVariable("a"),
                                               TokenType_Plus, ExprNumber("1")))
                  /\ Len(stmts) = 1 /\ ppc = "run" =>
                         FirstToken.tok = Token(TokenType_Label, "y")
           /\ ppc = "done" =>
                  (Len(stmts) = 2 /\ stmts[2] = StmtVarAssign("y", ExprVariable("c")))

\* `x = a - 1 - c` has been parsed to the left-leaning tree
C16_Witness ==
    /\ lexer.input = JoinLexemes(<<<<"x">>, <<"=">>, <<"a">>, <<"-">>, <<"1">>, <<"-">>, <<"c">>>>)
    /\ ppc = "done"
    /\ pnode = StmtBlock(<<StmtVarAssign("x",
                   ExprBinary(ExprBinary(ExprVariable("a"), TokenType_Minus, ExprNumber("1")),
                              TokenType_Minus, ExprVariable("c")))>>)

\* `x = a + 1 * c` has been parsed with the product as the right operand
C16_WitnessProduct ==
    /\ lexer.input = JoinLexemes(<<<<"x">>, <<"=">>, <<"a">>, <<"+">>, <<"1">>, <<"*">>, <<"c">>>>)
    /\ ppc = "done"
    /\ pnode = StmtBlock(<<StmtVarAssign("x",
                   ExprBinary(ExprVariable("a"), TokenType_Plus,
                              ExprBinary(ExprNumber("1"), TokenType_Asterisk,
                                         ExprVariable("c"))))>>)

\* C8: Parse terminates on every finite input and returns the root block or
\* an error, also when the token at statement position is not a Label (a
\* number literal, a string literal, a stray `)`).
C8_ParseTerminates == <>(ppc \in {"done", "failed"})

\* the input `1`: parseStmt returns no statement and no error, the token
\* stays in the peek buffer, and parseBlock's loop has come round again
C8_NumberAtStatement ==
    /\ lexer.input = <<"1">>
    /\ lexer.buf = Token(TokenType_NumberLiteral, "1")
    /\ ppc = "run"
    /\ stmts = <<>>
    /\ piter = 0

====
